---- MODULE Spec2Model ----
(***************************************************************************)
(* A model of the site mirroring engine (class SiteDownloader, the last    *)
(* and complete copy in src/unnamed/part_000, lines 823-1732) and of the   *)
(* simple crawler of src/index.js.  A run is a run of one of the two       *)
(* programs, chosen in Init.                                               *)
(*                                                                         *)
(* The engine is one chain of awaited async calls (downloadSite ->         *)
(* downloadPage -> process* -> downloadAsset / downloadFontAsset ...)      *)
(* plus the detached callbacks that processFontFaceInStyles starts and     *)
(* never awaits.  JavaScript runs each stretch of code between two awaits  *)
(* atomically, so a step of the model is one such stretch of one chain.    *)
(* The awaits that are modelled as suspension points are the transport     *)
(* call (retryRequest), the file write (fs.outputFile) and the politeness  *)
(* delay.  The transport and the file system are nondeterministic: every   *)
(* call may succeed or fail.                                               *)
(***************************************************************************)
EXTENDS Integers, Sequences, FiniteSets, TLC

(***************************************************************************)
(* URLs.  An absolute URL is a record: the host, the directory part of the *)
(* path, the last path segment split in name and extension, and whether    *)
(* the URL string ends in a slash.  The base URL is the only URL without   *)
(* a path: the constructor strips its trailing slash.                      *)
(***************************************************************************)
Url(h, d, n, e, s) == [host |-> h, dir |-> d, name |-> n, ext |-> e, slash |-> s]

BaseUrl == Url("x.test", "", "", "", FALSE)
About   == Url("x.test", "", "about", "", FALSE)
ImgA    == Url("x.test", "img", "a", "png", FALSE)
ImgB    == Url("x.test", "other", "a", "png", FALSE)
Big     == Url("x.test", "img", "big", "png", FALSE)
Logo    == Url("x.test", "", "logo", "", FALSE)
SCss    == Url("x.test", "", "s", "css", FALSE)
FontF   == Url("x.test", "", "f", "woff2", FALSE)
ImgRoot == Url("x.test", "", "a", "png", FALSE)
\* a script, a video, a sound and a favicon
AppJs   == Url("x.test", "", "app", "js", FALSE)
Clip    == Url("x.test", "", "clip", "mp4", FALSE)
Tune    == Url("x.test", "", "tune", "mp3", FALSE)
Favicon == Url("x.test", "", "favicon", "ico", FALSE)
CdnUrl  == Url("cdn.test", "", "ext", "", FALSE)
\* a font on the CDN that a style sheet names by its absolute URL
CdnFont == Url("cdn.test", "", "font", "woff2", FALSE)
\* what the text after the comma of data:image/png;base64,AAAA resolves to
\* when it is taken for a relative URL
DataTail == Url("x.test", "", "AAAA", "", FALSE)
\* pages whose path ends in a slash, and whose path has a file extension
Docs    == Url("x.test", "docs", "", "", TRUE)
PageHtml == Url("x.test", "", "page", "html", FALSE)
\* what href="/" resolves to: the root of the site, with its slash
RootSlash == Url("x.test", "", "", "", TRUE)
\* a page of another host whose name begins with the name of the base host
Evil    == Url("x.test.evil", "", "p", "", FALSE)
\* an href that new URL(href, baseUrl) rejects; it stands for itself
BadHref == Url("", "", "[bad", "", FALSE)
\* http://%zz@x.test/: an href whose userinfo cannot be decoded
BadAuth == Url("%zz@x.test", "", "", "", TRUE)

Urls == {BaseUrl, About, ImgA, ImgB, Big, Logo, SCss, FontF, ImgRoot,
         AppJs, Clip, Tune, Favicon, CdnUrl, CdnFont, DataTail, Docs, PageHtml, RootSlash, Evil,
         BadHref, BadAuth}

\* new URL(u) does not throw
Parseable(u) == u.host # ""

\* What the server answers for a URL: the content-type header ...
ContentType(u) ==
    CASE u \in {BaseUrl, About, CdnUrl, Docs, PageHtml, RootSlash, Evil} -> "text/html"
      [] u \in {ImgA, ImgB, Big, Logo, ImgRoot} -> "image/png"
      [] u = SCss                        -> "text/css"
      [] u \in {FontF, CdnFont}          -> "font/woff2"
      [] u = AppJs                       -> "application/javascript"
      [] u = Clip                        -> "video/mp4"
      [] u = Tune                        -> "audio/mpeg"
      [] u = Favicon                     -> "image/x-icon"
      [] OTHER                           -> ""

\* ... and the declared content-length, in MiB.
ContentLength(u) == IF u = Big THEN 60 ELSE 1

maxFileSize    == 50
skipLargeFiles == TRUE
maxRetries     == 3

\* retryRequest(requestFn): what the loop does when transport call number
\* attempt has ended.  It returns the response of a call that succeeded; after
\* a call that failed it waits attempt * 1000 ms and calls again, unless
\* attempt === retries: then it throws the error.
retryRequest(attempt, ok) ==
    IF ok THEN "return"
    ELSE IF attempt = maxRetries THEN "throw"
    ELSE "again"

\* the wait before the call that follows failed call number attempt, in ms
retryDelay(attempt) == 1000 * attempt

(***************************************************************************)
(* Local names.  A file name is the base name (its dot-separated parts),   *)
(* the extension and the uniqueness suffix: n = 0 is "base.ext", n > 0 is  *)
(* "base-n.ext".  A path is the list of directories and the file name.     *)
(***************************************************************************)
FileName(b, e, k) == [base |-> b, ext |-> e, n |-> k]

\* The result of a name resolution whose while loop does not end.
Diverges == FileName(<<>>, "", -1)

\* The result of a name resolution that throws: new URL(url) rejects the URL.
Throws == FileName(<<>>, "", -2)

\* How many candidates name-1, name-2, ... of the uniqueness loop the model
\* tries before it concludes that the loop does not end.
MaxSuffix == 2

FontExts  == {"woff", "woff2", "ttf", "otf", "eot"}
ImageExts == {"jpg", "jpeg", "png", "gif", "svg", "webp", "ico"}

\* path.extname(new URL(url).pathname) is non-empty
HasExt(u) == u.ext # ""

\* new URL(url).pathname ends with '/'
PathEndsWithSlash(u) == u.name = ""

getFileExtension(u, contentType) ==
    IF HasExt(u) THEN u.ext
    ELSE IF contentType # ""
         THEN CASE contentType = "text/css"  -> "css"
                [] contentType = "application/javascript" -> "js"
                [] contentType = "image/jpeg" -> "jpg"
                [] contentType = "image/png"  -> "png"
                [] contentType = "image/gif"  -> "gif"
                [] contentType = "image/svg+xml" -> "svg"
                [] contentType = "image/webp" -> "webp"
                [] contentType = "image/x-icon" -> "ico"
                [] OTHER -> "bin"
         ELSE "bin"

isLikelyHtmlPage(u, contentType) ==
    \/ contentType = "text/html"
    \/ ~HasExt(u) /\ ~PathEndsWithSlash(u)

\* getFontExtension with the default of getFileExtension
getFontExtensionBin(u, contentType) ==
    IF u.ext \in FontExts THEN u.ext
    ELSE IF contentType # ""
         THEN CASE contentType \in {"font/woff", "application/font-woff"}   -> "woff"
                [] contentType \in {"font/woff2", "application/font-woff2"} -> "woff2"
                [] contentType \in {"font/ttf", "application/x-font-ttf"}   -> "ttf"
                [] contentType \in {"font/otf", "application/x-font-otf"}   -> "otf"
                [] contentType = "application/vnd.ms-fontobject"            -> "eot"
                [] OTHER -> "bin"
         ELSE "bin"

getFontExtension(u, contentType) ==
    IF u.ext \in FontExts THEN u.ext
    ELSE IF contentType # ""
         THEN CASE contentType \in {"font/woff", "application/font-woff"}   -> "woff"
                [] contentType \in {"font/woff2", "application/font-woff2"} -> "woff2"
                [] contentType \in {"font/ttf", "application/x-font-ttf"}   -> "ttf"
                [] contentType \in {"font/otf", "application/x-font-otf"}   -> "otf"
                [] contentType = "application/vnd.ms-fontobject"            -> "eot"
                [] OTHER -> "woff"
         ELSE "woff"

\* The uniqueness loop shared by generateFilename and generateFontFilename:
\*   while (assetMap.has(url) && assetMap.get(url) !== finalName)
\*       finalName = `${baseName}-${counter}${ext}`, counter++
RECURSIVE uniqueLoop(_, _, _, _)
uniqueLoop(am, u, finalName, counter) ==
    IF u \in DOMAIN am /\ am[u] # finalName
    THEN IF counter > MaxSuffix
         THEN Diverges
         ELSE uniqueLoop(am, u, FileName(finalName.base, finalName.ext, counter), counter + 1)
    ELSE finalName

\* The characters of a string, in pieces: a piece is a run of characters of
\* the class [a-zA-Z0-9._-] or one character outside the class.
Chars(s) ==
    CASE s = ""              -> <<>>
      [] s = "play%20button" -> <<"play", "%", "20button">>
      [] s = "play_20button" -> <<"play", "_", "20button">>
      [] s = "[bad"          -> <<"[", "bad">>
      [] OTHER               -> <<s>>

\* the characters outside the class that the strings of the model hold
UnsafeChars == {"%", "["}

\* the strings a replacement can give
Replaced == {"play_20button"}

\* the name as it would be without name.replace
replaceUnsafeNone(s) == s

\* name.replace(/[^a-zA-Z0-9.\-_]/g, '_')
replaceUnsafe(s) ==
    LET cs == [j \in 1..Len(Chars(s)) |->
                  IF Chars(s)[j] \in UnsafeChars THEN "_" ELSE Chars(s)[j]]
    IN  CHOOSE t \in {s} \cup Replaced : Chars(t) = cs

\* The name before the uniqueness loop.
baseFilename(u, type, extension) ==
    LET seg == IF u.name = "" THEN type ELSE u.name
        ext == IF HasExt(u) /\ u.name # "" THEN u.ext
               ELSE IF extension # "" THEN extension
               ELSE getFileExtension(u, "")
    IN  FileName(<<replaceUnsafe(seg)>>, replaceUnsafe(ext), 0)

generateFilename(am, u, type, extension) ==
    IF ~Parseable(u) THEN Throws
    ELSE uniqueLoop(am, u, baseFilename(u, type, extension), 1)

baseFontFilename(u, extension) ==
    LET seg == IF u.name = "" THEN "font-now" ELSE u.name
    IN  IF HasExt(u) /\ u.ext \in FontExts THEN FileName(<<replaceUnsafe(seg)>>, u.ext, 0)
        ELSE IF HasExt(u)
        THEN FileName(<<replaceUnsafe(seg), replaceUnsafe(u.ext)>>, replaceUnsafe(extension), 0)
        ELSE FileName(<<replaceUnsafe(seg)>>, replaceUnsafe(extension), 0)

generateFontFilename(am, u, extension) ==
    IF ~Parseable(u) THEN Throws
    ELSE uniqueLoop(am, u, baseFontFilename(u, extension), 1)

outputDir == <<"public">>
assetsDir == outputDir \o <<"assets">>
fontsDir  == assetsDir \o <<"fonts">>

FilePath(d, f) == [dirs |-> d, file |-> f]

IndexHtml == FileName(<<"index">>, "html", 0)

getPageOutputPath(u) ==
    LET d == IF u.dir = "" THEN <<>> ELSE <<u.dir>>
    IN  IF u.name = "" /\ u.dir = "" THEN FilePath(outputDir, IndexHtml)
        ELSE IF u.dir = "" /\ u.name = "index" /\ u.ext = "html"
             THEN FilePath(outputDir, IndexHtml)
        ELSE IF HasExt(u) THEN FilePath(outputDir \o d, FileName(<<u.name>>, u.ext, 0))
        ELSE IF u.name = "" THEN FilePath(outputDir \o d, IndexHtml)
        ELSE FilePath(outputDir \o d \o <<u.name>>, IndexHtml)

\* the host names of the model that begin with the string s
HostsStartingWith(s) ==
    CASE s = "x.test"      -> {"x.test", "x.test.evil"}
      [] s = "cdn.test"    -> {"cdn.test"}
      [] s = "x.test.evil" -> {"x.test.evil"}
      [] OTHER             -> {}

\* absoluteUrl.startsWith(this.baseUrl): a prefix test on the URL strings.
\* The base URL string ends with its host name (the constructor stripped the
\* slash), so every URL of a host whose name continues it passes the test.
startsWithBaseUrl(u) == u.host \in HostsStartingWith(BaseUrl.host)

\* the origin (scheme, host, port) of u is the origin of the base URL; the
\* URLs of the model differ in their host only
sameOrigin(u) == u.host = BaseUrl.host

\* The type the retry sweep gives a URL, from the end of the URL string.
retryType(u) ==
    LET e == IF u.slash THEN "" ELSE u.ext
    IN  IF e = "css" THEN "css"
        ELSE IF e = "js" THEN "js"
        ELSE IF e \in ImageExts THEN "images"
        ELSE IF e \in FontExts THEN "fonts"
        ELSE IF isLikelyHtmlPage(u, "") THEN "page"
        ELSE "other"

(***************************************************************************)
(* The mirrored site.  A document is what cheerio finds in a page: the     *)
(* URLs (already resolved against the page) of its elements, by selector.  *)
(* The pages write a reference to their own host as a path (/img/a.png)    *)
(* and a reference to another host as an absolute URL.  A <style> element  *)
(* and a CSS file are one @font-face block: the list of its src url()      *)
(* tokens, each with whether a semicolon ends its declaration.  The run    *)
(* mirrors one of several small sites, chosen in Init.                     *)
(***************************************************************************)
Decl(u, semi) == [url |-> u, semi |-> semi]

\* A candidate of a srcset attribute: its URL and its descriptor.  A data:
\* URL (data:image/png;base64,AAAA) has a comma in it; url is then what the
\* text after that comma resolves to.
Candidate(u, d, data) == [url |-> u, descriptor |-> d, data |-> data]

\* srcset.split(','): the parts of the attribute.  A data: candidate falls
\* in two parts, its head (which starts with 'data:') and the rest.
RECURSIVE splitComma(_)
splitComma(cs) ==
    IF cs = <<>> THEN <<>>
    ELSE (IF Head(cs).data
          THEN <<[Head(cs) EXCEPT !.descriptor = ""], [Head(cs) EXCEPT !.data = FALSE]>>
          ELSE <<Head(cs)>>) \o splitComma(Tail(cs))

\* the parts that processSrcset passes to downloadAsset
srcsetUrls(cs) ==
    LET sel == SelectSeq(splitComma(cs), LAMBDA c : ~c.data)
    IN  [j \in 1..Len(sel) |-> sel[j].url]

\* The srcset attribute of the image of a page.
Srcset(s, u) ==
    IF s = "srcset" /\ u = BaseUrl
    THEN <<Candidate(ImgRoot, "1x", FALSE), Candidate(DataTail, "2x", TRUE)>>
    ELSE <<>>

\* srcRegex = /src:\s*([^;]+);/gi of processFontFaceBlock: the url() tokens
\* of the src declarations that a semicolon ends
srcUrls(block) ==
    LET sel == SelectSeq(block, LAMBDA d : d.semi)
    IN  [j \in 1..Len(sel) |-> sel[j].url]

\* /url\(['"]?([^'")]+)['"]?\)/gi of rewriteCssUrls: every url() token
cssUrls(block) == [j \in 1..Len(block) |-> block[j].url]

EmptyDoc ==
    [css |-> <<>>, js |-> <<>>, img |-> <<>>, srcset |-> <<>>, links |-> <<>>,
     videos |-> <<>>, audios |-> <<>>, fonts |-> <<>>, styles |-> <<>>, icons |-> <<>>]

Sites == {"assets", "fonts", "logo", "logo2", "badhref", "scenario", "paths", "media",
          "srcset", "iconfont", "home", "cdn", "badauth"}

Doc(s, u) ==
    CASE s = "assets" /\ u = BaseUrl ->
           [EmptyDoc EXCEPT !.img = <<ImgA, ImgB, Big>>, !.links = <<About, CdnUrl>>]
      [] s = "assets" /\ u = About ->
           [EmptyDoc EXCEPT !.img = <<ImgA>>, !.links = <<About>>]
      [] s = "fonts" /\ u = BaseUrl ->
           [EmptyDoc EXCEPT !.css = <<SCss>>,
                            !.styles = << <<Decl(FontF, TRUE)>>, <<Decl(FontF, TRUE)>> >>]
      [] s = "logo" /\ u = BaseUrl ->
           [EmptyDoc EXCEPT !.img = <<Logo>>, !.links = <<Logo>>]
      [] s = "logo2" /\ u = BaseUrl ->
           [EmptyDoc EXCEPT !.img = <<Logo, Logo>>]
      [] s = "badhref" /\ u = BaseUrl ->
           [EmptyDoc EXCEPT !.img = <<BadHref, ImgA>>, !.links = <<Evil>>]
      [] s = "scenario" /\ u = BaseUrl ->
           [EmptyDoc EXCEPT !.css = <<SCss>>, !.img = <<ImgRoot>>]
      [] s = "media" /\ u = BaseUrl ->
           [EmptyDoc EXCEPT !.js = <<AppJs>>, !.videos = <<Clip>>, !.audios = <<Tune>>,
                            !.icons = <<Favicon>>]
      [] s = "srcset" /\ u = BaseUrl ->
           [EmptyDoc EXCEPT !.srcset = srcsetUrls(Srcset(s, u))]
      [] s = "iconfont" /\ u = BaseUrl ->   \* the favicon is also the src of an @font-face
           [EmptyDoc EXCEPT !.styles = << <<Decl(Favicon, TRUE)>> >>, !.icons = <<Favicon>>]
      [] s = "home" /\ u \in {BaseUrl, RootSlash} ->   \* <a href="/">Home</a>
           [EmptyDoc EXCEPT !.links = <<RootSlash>>]
      [] s = "cdn" /\ u = BaseUrl ->
           [EmptyDoc EXCEPT !.css = <<SCss>>, !.links = <<About>>]
      [] s = "badauth" /\ u = BaseUrl ->
           [EmptyDoc EXCEPT !.links = <<BadAuth, About>>]
      [] s = "paths" /\ u = BaseUrl ->
           [EmptyDoc EXCEPT !.links = <<About, Docs, PageHtml>>]
      [] OTHER -> EmptyDoc

\* The text of a style sheet.  In the site "scenario" s.css is exactly
\* @font-face{src:url(/f.woff2)}: no semicolon ends the declaration.
Sheet(s, u) ==
    CASE s = "fonts" /\ u = SCss    -> <<Decl(FontF, TRUE)>>
      [] s = "scenario" /\ u = SCss -> <<Decl(FontF, FALSE)>>
      [] s = "cdn" /\ u = SCss      -> <<Decl(CdnFont, TRUE)>>
      [] OTHER -> <<>>

Item(k, t, u) == [kind |-> k, type |-> t, url |-> u]

Items(k, t, us) == [j \in 1..Len(us) |-> Item(k, t, us[j])]

\* downloadPage with processLinks called before processImages
WorkListLinksFirst(d) ==
    Items("asset", "css", d.css) \o <<Item("stylecss", "css", BaseUrl)>>
    \o Items("asset", "js", d.js)
    \o Items("link", "html", d.links)
    \o Items("asset", "images", d.img) \o Items("srcset", "images", d.srcset)
    \o Items("asset", "videos", d.videos) \o Items("asset", "audio", d.audios)
    \o Items("asset", "fonts", d.fonts)
    \o <<Item("styles", "fonts", BaseUrl)>>
    \o Items("asset", "icons", d.icons)

\* The order in which downloadPage runs the sub-pipelines over a document.
WorkList(d) ==
    Items("asset", "css", d.css) \o <<Item("stylecss", "css", BaseUrl)>>
    \o Items("asset", "js", d.js)
    \o Items("asset", "images", d.img) \o Items("srcset", "images", d.srcset)
    \o Items("link", "html", d.links)
    \o Items("asset", "videos", d.videos) \o Items("asset", "audio", d.audios)
    \o Items("asset", "fonts", d.fonts)
    \o <<Item("styles", "fonts", BaseUrl)>>
    \o Items("asset", "icons", d.icons)

(***************************************************************************)
(* The state of a run.                                                     *)
(***************************************************************************)
VARIABLES
    disk,                 \* what an earlier run left on disk, and the cleanup of init()
    program,              \* the program that runs: SiteDownloader or index.js
    site,                 \* the site being mirrored
    visited,              \* index.js: the set visited
    crawlers,             \* index.js: the calls of downloadPage that have not ended
    visitedUrls,          \* this.visitedUrls
    assetMap,             \* this.assetMap: URL -> file name
    pendingDownloads,     \* this.pendingDownloads
    failedDownloads,      \* this.failedDownloads, a Set: the URLs in insertion order
    successfulDownloads,  \* this.successfulDownloads
    stats,                \* this.stats
    files,                \* the file system: path -> the file (File) at that path
    rewritten,            \* the attribute and url() rewrites applied to the documents
    main,                 \* the awaited call chain of downloadSite, a stack of frames
    ret,                  \* the value the last returned call of the chain gave
    tasks,                \* the detached <style> callbacks of processFontFaceInStyles
    hung,                 \* the event loop is stuck in a loop that does not end
    report,               \* the report generateStatistics built
    hist                  \* history of the run (not program state)

vars == <<disk, program, visited, crawlers, site, visitedUrls, assetMap, pendingDownloads,
          failedDownloads,
          successfulDownloads, stats, files, rewritten, main, ret, tasks, hung,
          report, hist>>

\* what a download returns when it stored nothing
Null == FileName(<<>>, "null", -1)
NoReport == "none"

Zero == [u \in Urls |-> 0]

Types == {"page", "css", "js", "images", "videos", "audio", "fonts", "icons", "other", "html"}

InitStats ==
    [successful |-> [pages |-> 0, assets |-> 0, byType |-> [t \in Types |-> 0]],
     failed     |-> [pages |-> 0, assets |-> 0, byType |-> [t \in Types |-> 0]],
     urls       |-> [successful |-> <<>>, failed |-> <<>>]]

Frame(k, u, t, p) ==
    [k |-> k, url |-> u, type |-> t, pc |-> p, i |-> 1, q |-> <<>>,
     name |-> Diverges, wait |-> FALSE, attempt |-> 1, backoff |-> 0, html |-> {}]

Programs == {"SiteDownloader", "index.js"}

InitHist ==
    [gate |-> Zero,        \* calls of downloadPage past the visited gate
     pageFetch |-> Zero,   \* page requests issued
     pageOk |-> {},        \* pages whose request succeeded
     pageSave |-> Zero,    \* page files written by downloadPage
     pageIoFailed |-> {},  \* pages whose file write failed
     assetFetch |-> Zero,  \* requests issued by downloadAsset/downloadFontAsset
     assetFail |-> Zero,   \* failed calls of the asset store
     assetIoFailed |-> {}, \* assets whose file write failed
     skipped |-> {},       \* responses skipped for their size
     txFailed |-> {},      \* URLs with a failed transport call
     txOk |-> {},          \* URLs with a successful transport call
     snapshot |-> <<>>,    \* the snapshot the retry sweep took
     cssIoFailed |-> {},   \* style sheets whose rewritten text could not be written
     thrownAfter |-> 0]    \* transport calls of the last retryRequest that threw

\* the output directory when init() has cleaned it and made its directories
CleanDisk == [before |-> {}, pub |-> {}, cwd |-> {}, todo |-> {}, pc |-> "ready"]

\* The state when init() has returned (for index.js: when the script starts).
Init ==
    /\ disk = CleanDisk
    /\ program \in Programs
    /\ site \in Sites
    /\ visited = {}
    /\ crawlers = <<>>
    /\ visitedUrls = {}
    /\ assetMap = <<>>
    /\ pendingDownloads = {}
    /\ failedDownloads = <<>>
    /\ successfulDownloads = {}
    /\ stats = InitStats
    /\ files = <<>>
    /\ rewritten = {}
    /\ main = <<Frame("site", BaseUrl, "page", "start")>>
    /\ ret = Null
    /\ tasks = <<>>
    /\ hung = FALSE
    /\ report = NoReport
    /\ hist = InitHist

(***************************************************************************)
(* Updates of the shared collections.                                      *)
(***************************************************************************)
InSeq(x, sq) == \E j \in 1..Len(sq) : sq[j] = x

SeqSet(sq) == {sq[j] : j \in 1..Len(sq)}

RemoveAt(sq, i) == SubSeq(sq, 1, i - 1) \o SubSeq(sq, i + 1, Len(sq))

\* Set.add on the insertion-ordered failedDownloads
addFailed(fd, u) == IF InSeq(u, fd) THEN fd ELSE Append(fd, u)

\* downloadPage's catch block: the failure record and the page counter
recordPageFailure(st, u) ==
    [st EXCEPT !.urls.failed = Append(@, [url |-> u, type |-> "page"]),
               !.failed.pages = @ + 1]

\* downloadPage after the save (and the HTML branch of downloadAsset)
recordPageSuccess(st, u, path) ==
    [st EXCEPT !.urls.successful = Append(@, [url |-> u, localPath |-> path, type |-> "page"]),
               !.successful.pages = @ + 1]

\* the catch block as it would be without this.stats.failed.assets++
recordAssetFailureUncounted(st, u, type) ==
    [st EXCEPT !.urls.failed = Append(@, [url |-> u, type |-> type]),
               !.failed.byType[type] = @ + 1]

\* the catch blocks of downloadAsset and downloadFontAsset
recordAssetFailure(st, u, type) ==
    [st EXCEPT !.urls.failed = Append(@, [url |-> u, type |-> type]),
               !.failed.byType[type] = @ + 1,
               !.failed.assets = @ + 1]

\* downloadAsset and downloadFontAsset after the file was written
recordAssetSuccess(st, u, path, type) ==
    [st EXCEPT !.successful.byType[type] = @ + 1,
               !.successful.assets = @ + 1,
               !.urls.successful = Append(@, [url |-> u, localPath |-> path, type |-> type])]

Bump(f, u) == [f EXCEPT ![u] = @ + 1]

Top == main[Len(main)]
Popped == SubSeq(main, 1, Len(main) - 1)
WithTop(f) == [main EXCEPT ![Len(main)] = f]

\* the reference a callback of processAsset writes into the document
assetRef(type, name) ==
    FilePath(IF type = "fonts" THEN <<"assets", "fonts">> ELSE <<"assets">>, name)

\* getRelativePathForLink without the index.html of an extensionless path
getRelativePathForLinkVerbatim(u) ==
    LET d == IF u.dir = "" THEN <<>> ELSE <<u.dir>>
    IN  IF u.name = "" /\ u.dir = "" THEN FilePath(<<>>, IndexHtml)
        ELSE IF u.name = "" THEN FilePath(d, IndexHtml)
        ELSE FilePath(d, FileName(<<u.name>>, u.ext, 0))

getRelativePathForLink(u) ==
    LET d == IF u.dir = "" THEN <<>> ELSE <<u.dir>>
    IN  IF u.name = "" /\ u.dir = "" THEN FilePath(<<>>, IndexHtml)
        ELSE IF HasExt(u) THEN FilePath(d, FileName(<<u.name>>, u.ext, 0))
        ELSE IF u.name = "" THEN FilePath(d, IndexHtml)
        ELSE FilePath(d \o <<u.name>>, IndexHtml)

Rewrite(d, r, t) == [doc |-> d, ref |-> r, to |-> t]

\* A file: the URL whose response it holds, and the references of its text
\* that were rewritten to local paths before it was written.
File(u, refs) == [url |-> u, refs |-> refs]

\* the rewrites applied so far to the document (or style sheet) d
rewritesOf(rw, d) == {r \in rw : r.doc = d}

\* the reference x of d has been rewritten: its text is a local path now
isRewritten(rw, d, x) == \E r \in rw : r.doc = d /\ r.ref = x

isFontFile(u) == u.ext \in FontExts

\* rewriteCssUrls without the isFontFile test
rewriteCssUrlsFlat(rw, am, d, urls) ==
    {Rewrite(d, urls[j], assetRef("css", am[urls[j]])) :
        j \in {k \in 1..Len(urls) : urls[k] \in DOMAIN am /\ ~isRewritten(rw, d, urls[k])}}

\* the url() tokens of a text that rewriteCssUrls replaces: those in assetMap
\* (a token that is already local starts with assets/ and is left alone)
rewriteCssUrls(rw, am, d, urls) ==
    {Rewrite(d, urls[j], assetRef(IF isFontFile(urls[j]) THEN "fonts" ELSE "css",
                                  am[urls[j]])) :
        j \in {k \in 1..Len(urls) : urls[k] \in DOMAIN am /\ ~isRewritten(rw, d, urls[k])}}

\* the URLs of the elements of a document that carry an href, and a src
hrefUrls(doc) == doc.css \o doc.links \o doc.fonts \o doc.icons
srcAttrUrls(doc) == doc.js \o doc.img \o doc.videos \o doc.audios

\* the attributes of d among us that still start with 'http': the absolute
\* references (those to another host) that no pipeline has rewritten
startsWithHttp(rw, d, us) ==
    {us[k] : k \in {j \in 1..Len(us) : /\ Parseable(us[j]) /\ us[j].host # BaseUrl.host
                                       /\ ~isRewritten(rw, d, us[j])}}

\* rewriteUrls($), over the document doc of the page d
rewriteUrls(rw, am, d, doc) ==
    {Rewrite(d, x, getRelativePathForLink(x)) :
        x \in {y \in startsWithHttp(rw, d, hrefUrls(doc)) : startsWithBaseUrl(y)}}
    \cup
    {Rewrite(d, x, assetRef(IF isFontFile(x) THEN "fonts" ELSE "css", am[x])) :
        x \in {y \in startsWithHttp(rw, d, hrefUrls(doc)) :
                  ~startsWithBaseUrl(y) /\ y \in DOMAIN am}}
    \cup
    {Rewrite(d, x, assetRef(IF isFontFile(x) THEN "fonts" ELSE "css", am[x])) :
        x \in {y \in startsWithHttp(rw, d, srcAttrUrls(doc)) : y \in DOMAIN am}}

(***************************************************************************)
(* Calls.  A call that has to wait pushes a frame on the chain; the caller *)
(* continues when the frame has been popped.                               *)
(***************************************************************************)
\* downloadPage(u) as it would be without this.visitedUrls.add(url)
EnterPageUnmarked(u, caller) ==
    /\ visitedUrls' = visitedUrls
    /\ main' = Append(WithTop(caller), Frame("page", u, "page", "fetch"))
    /\ hist' = [hist EXCEPT !.gate = Bump(@, u), !.pageFetch = Bump(@, u)]

\* downloadPage(u) past the visited gate: the URL is marked and the page requested
EnterPage(u, caller) ==
    /\ visitedUrls' = visitedUrls \cup {u}
    /\ main' = Append(WithTop(caller), Frame("page", u, "page", "fetch"))
    /\ hist' = [hist EXCEPT !.gate = Bump(@, u), !.pageFetch = Bump(@, u)]

\* downloadAsset(u, type) or downloadFontAsset(u) past the assetMap check
EnterAsset(u, type, caller) ==
    /\ main' = Append(WithTop(caller),
                      Frame(IF type = "fonts" THEN "font" ELSE "asset", u, type, "fetch"))
    /\ hist' = [hist EXCEPT !.assetFetch = Bump(@, u)]

\* a frame of the chain returns v to its caller
Return(v) ==
    /\ main' = Popped
    /\ ret' = v

(***************************************************************************)
(* downloadAsset and downloadFontAsset.  kind is "font" for a call of      *)
(* downloadFontAsset and "asset" for a call of downloadAsset.              *)
(***************************************************************************)
\* the response of a URL is over the size ceiling and is skipped
isSkipped(u) == skipLargeFiles /\ ContentLength(u) > maxFileSize

\* let extension = this.getFileExtension(assetUrl, response.headers['content-type'])
responseExtension(u) == getFileExtension(u, ContentType(u))

\* downloadAsset takes the branch that saves the response as a page
isHtmlBranch(kind, u) ==
    kind = "asset" /\ responseExtension(u) = "" /\ isLikelyHtmlPage(u, ContentType(u))

\* the file name the download resolves for its response
resolveName(kind, u, type) ==
    IF kind = "font"
    THEN generateFontFilename(assetMap, u, getFontExtension(u, ContentType(u)))
    ELSE generateFilename(assetMap, u, type, responseExtension(u))

storeDir(kind) == IF kind = "font" THEN fontsDir ELSE assetsDir

\* after fs.outputFile: assetMap.set, successfulDownloads.add and the statistics
StoreAsset(kind, u, type, name) ==
    /\ files' = (FilePath(storeDir(kind), name) :> File(u, {})) @@ files
    /\ assetMap' = (u :> name) @@ assetMap
    /\ successfulDownloads' = successfulDownloads \cup {u}
    /\ stats' = recordAssetSuccess(stats, u, FilePath(storeDir(kind), name), type)

\* the catch block as it would be without this.failedDownloads.add(assetUrl)
FailAssetUnlisted(u, type) ==
    /\ failedDownloads' = failedDownloads
    /\ stats' = recordAssetFailure(stats, u, type)

\* the catch block: failedDownloads.add and the failure record
FailAsset(u, type) ==
    /\ failedDownloads' = addFailed(failedDownloads, u)
    /\ stats' = recordAssetFailure(stats, u, type)

(***************************************************************************)
(* downloadSite and downloadPage                                           *)
(***************************************************************************)
StartSite ==
    /\ program = "SiteDownloader" /\ ~hung /\ Top.k = "site" /\ Top.pc = "start"
    /\ EnterPage(BaseUrl, [Top EXCEPT !.pc = "crawl"])
    /\ UNCHANGED <<disk, program, visited, crawlers, site,
                   assetMap, pendingDownloads, failedDownloads, successfulDownloads,
                   stats, files, rewritten, ret, tasks, hung, report>>

PageFetchDone ==
    /\ ~hung /\ Top.k = "page" /\ Top.pc = "fetch"
    /\ \E ok \in BOOLEAN :
         CASE retryRequest(Top.attempt, ok) = "return" ->
              /\ main' = WithTop([Top EXCEPT !.pc = "work"])
              /\ hist' = [hist EXCEPT !.txOk = @ \cup {Top.url}, !.pageOk = @ \cup {Top.url}]
              /\ UNCHANGED <<failedDownloads, stats, ret>>
           [] retryRequest(Top.attempt, ok) = "again" ->
              /\ main' = WithTop([Top EXCEPT !.attempt = @ + 1,
                                             !.backoff = retryDelay(Top.attempt)])
              /\ UNCHANGED <<failedDownloads, stats, ret, hist>>
           [] retryRequest(Top.attempt, ok) = "throw" ->
              /\ failedDownloads' = addFailed(failedDownloads, Top.url)
              /\ stats' = recordPageFailure(stats, Top.url)
              /\ hist' = [hist EXCEPT !.txFailed = @ \cup {Top.url},
                                      !.thrownAfter = Top.attempt]
              /\ Return(Null)
    /\ UNCHANGED <<disk, program, visited, crawlers, site,
                   visitedUrls, assetMap, pendingDownloads, successfulDownloads,
                   files, rewritten, tasks, hung, report>>

\* the <style> callbacks that processFontFaceInStyles starts: each runs up to
\* its first await, which is a font request unless the font is in assetMap
spawnTask(d, q) ==
    [doc |-> d, q |-> q, name |-> Diverges, attempt |-> 1, backoff |-> 0,
     pc |-> IF q = <<>> \/ Head(q) \in DOMAIN assetMap THEN "resume" ELSE "fetch"]

\* the url() tokens of a <style> block that processFontFaceBlock downloads:
\* a token that rewriteCssUrls made local starts with 'assets/' and is skipped
styleQueue(d, block) == SelectSeq(srcUrls(block), LAMBDA x : ~isRewritten(rewritten, d, x))

RECURSIVE BumpAll(_, _)
BumpAll(f, ts) ==
    IF ts = <<>> THEN f
    ELSE BumpAll(IF Head(ts).pc = "fetch" THEN Bump(f, Head(Head(ts).q)) ELSE f, Tail(ts))

\* downloadPage takes the next element of the document, or saves the page
PageItem ==
    /\ ~hung /\ Top.k = "page" /\ Top.pc = "work" /\ ~Top.wait
    /\ LET f == Top
           W == WorkList(Doc(site, f.url))
           next == [f EXCEPT !.i = @ + 1]
           waiting == [f EXCEPT !.wait = TRUE]
       IN  IF f.i > Len(W)
           THEN \* rewriteUrls($), then fs.outputFile($.html()) is started
                LET rw == rewritten \cup rewriteUrls(rewritten, assetMap, f.url, Doc(site, f.url))
                IN  /\ rewritten' = rw
                    /\ main' = WithTop([f EXCEPT !.pc = "write", !.html = rewritesOf(rw, f.url)])
                    /\ UNCHANGED <<visitedUrls, pendingDownloads, failedDownloads, stats,
                                   tasks, hung, hist>>
           ELSE LET it == W[f.i] IN
             CASE it.kind = "asset" ->   \* processAsset(href, baseUrl, type, callback)
                    IF it.url \in pendingDownloads
                    THEN /\ main' = WithTop(next)
                         /\ UNCHANGED <<visitedUrls, pendingDownloads, failedDownloads, stats,
                                        rewritten, tasks, hung, hist>>
                    ELSE IF ~Parseable(it.url)
                    THEN /\ FailAsset(it.url, it.type)
                         /\ hist' = [hist EXCEPT !.assetFail = Bump(@, it.url)]
                         /\ main' = WithTop(next)
                         /\ UNCHANGED <<visitedUrls, pendingDownloads, rewritten, tasks, hung>>
                    ELSE IF it.url \in DOMAIN assetMap
                    THEN /\ rewritten' = rewritten \cup
                              {Rewrite(f.url, it.url, assetRef(it.type, assetMap[it.url]))}
                         /\ main' = WithTop(next)
                         /\ UNCHANGED <<visitedUrls, pendingDownloads, failedDownloads, stats,
                                        tasks, hung, hist>>
                    ELSE /\ pendingDownloads' = pendingDownloads \cup {it.url}
                         /\ EnterAsset(it.url, it.type, waiting)
                         /\ UNCHANGED <<visitedUrls, failedDownloads, stats, rewritten, tasks, hung>>
               [] it.kind = "srcset" ->  \* processSrcset: downloadAsset(assetUrl, 'images')
                    IF it.url \in DOMAIN assetMap
                    THEN /\ rewritten' = rewritten \cup
                              {Rewrite(f.url, it.url, assetRef(it.type, assetMap[it.url]))}
                         /\ main' = WithTop(next)
                         /\ UNCHANGED <<visitedUrls, pendingDownloads, failedDownloads, stats,
                                        tasks, hung, hist>>
                    ELSE /\ EnterAsset(it.url, it.type, waiting)
                         /\ UNCHANGED <<visitedUrls, pendingDownloads, failedDownloads, stats,
                                        rewritten, tasks, hung>>
               [] it.kind = "link" ->    \* processLinks
                    IF ~startsWithBaseUrl(it.url)
                    THEN /\ main' = WithTop(next)
                         /\ UNCHANGED <<visitedUrls, pendingDownloads, failedDownloads, stats,
                                        rewritten, tasks, hung, hist>>
                    ELSE IF generateFilename(assetMap, it.url, "html", "") = Diverges
                    THEN /\ hung' = TRUE
                         /\ UNCHANGED <<visitedUrls, pendingDownloads, failedDownloads, stats,
                                        rewritten, tasks, main, hist>>
                    ELSE IF it.url \in visitedUrls
                    THEN /\ rewritten' = rewritten \cup
                              {Rewrite(f.url, it.url, getRelativePathForLink(it.url))}
                         /\ main' = WithTop(next)
                         /\ UNCHANGED <<visitedUrls, pendingDownloads, failedDownloads, stats,
                                        tasks, hung, hist>>
                    ELSE /\ EnterPage(it.url, waiting)
                         /\ UNCHANGED <<pendingDownloads, failedDownloads, stats, rewritten,
                                        tasks, hung>>
               [] it.kind = "stylecss" -> \* processStylesheets: rewriteCssUrls of each <style>
                    LET st == Doc(site, f.url).styles
                    IN  /\ rewritten' = rewritten \cup UNION
                              {rewriteCssUrls(rewritten, assetMap, f.url, cssUrls(st[j])) :
                                  j \in 1..Len(st)}
                        /\ main' = WithTop(next)
                        /\ UNCHANGED <<visitedUrls, pendingDownloads, failedDownloads, stats,
                                       tasks, hung, hist>>
               [] it.kind = "styles" ->  \* processFontFaceInStyles
                    LET st == Doc(site, f.url).styles
                        new == [j \in 1..Len(st) |-> spawnTask(f.url, styleQueue(f.url, st[j]))]
                    IN  /\ tasks' = tasks \o new
                        /\ hist' = [hist EXCEPT !.assetFetch = BumpAll(@, new)]
                        /\ main' = WithTop(next)
                        /\ UNCHANGED <<visitedUrls, pendingDownloads, failedDownloads, stats,
                                       rewritten, hung>>
    /\ UNCHANGED <<disk, program, visited, crawlers, site,
                   assetMap, successfulDownloads, files, ret, report>>

\* processAsset as it would be without the finally block
PageResumeUnreleased ==
    /\ ~hung /\ Top.k = "page" /\ Top.pc = "work" /\ Top.wait
    /\ LET f == Top
           it == WorkList(Doc(site, f.url))[f.i]
       IN  /\ main' = WithTop([f EXCEPT !.i = @ + 1, !.wait = FALSE])
           /\ rewritten' =
                IF it.kind = "link"
                THEN rewritten \cup {Rewrite(f.url, it.url, getRelativePathForLink(it.url))}
                ELSE IF ret # Null
                THEN rewritten \cup {Rewrite(f.url, it.url, assetRef(it.type, ret))}
                ELSE rewritten
           /\ pendingDownloads' = pendingDownloads
    /\ ret' = Null
    /\ UNCHANGED <<disk, program, visited, crawlers, site,
                   visitedUrls, assetMap, failedDownloads, successfulDownloads,
                   stats, files, tasks, hung, report, hist>>

\* processLinks as it would be if the href were left alone when the target failed
PageResumeSavedOnly ==
    /\ ~hung /\ Top.k = "page" /\ Top.pc = "work" /\ Top.wait
    /\ LET f == Top
           it == WorkList(Doc(site, f.url))[f.i]
       IN  /\ main' = WithTop([f EXCEPT !.i = @ + 1, !.wait = FALSE])
           /\ rewritten' =
                IF it.kind = "link"
                THEN IF it.url \in successfulDownloads
                     THEN rewritten \cup {Rewrite(f.url, it.url, getRelativePathForLink(it.url))}
                     ELSE rewritten
                ELSE IF ret # Null
                THEN rewritten \cup {Rewrite(f.url, it.url, assetRef(it.type, ret))}
                ELSE rewritten
           /\ pendingDownloads' =
                IF it.kind = "asset" THEN pendingDownloads \ {it.url} ELSE pendingDownloads
    /\ ret' = Null
    /\ UNCHANGED <<disk, program, visited, crawlers, site,
                   visitedUrls, assetMap, failedDownloads, successfulDownloads,
                   stats, files, tasks, hung, report, hist>>

\* the call made for the current element has returned
PageResume ==
    /\ ~hung /\ Top.k = "page" /\ Top.pc = "work" /\ Top.wait
    /\ LET f == Top
           it == WorkList(Doc(site, f.url))[f.i]
       IN  /\ main' = WithTop([f EXCEPT !.i = @ + 1, !.wait = FALSE])
           /\ rewritten' =
                IF it.kind = "link"
                THEN rewritten \cup {Rewrite(f.url, it.url, getRelativePathForLink(it.url))}
                ELSE IF ret # Null
                THEN rewritten \cup {Rewrite(f.url, it.url, assetRef(it.type, ret))}
                ELSE rewritten
           /\ pendingDownloads' =
                IF it.kind = "asset" THEN pendingDownloads \ {it.url} ELSE pendingDownloads
    /\ ret' = Null
    /\ UNCHANGED <<disk, program, visited, crawlers, site,
                   visitedUrls, assetMap, failedDownloads, successfulDownloads,
                   stats, files, tasks, hung, report, hist>>

\* fs.outputFile(outputPath, $.html()) has ended
PageWriteDone ==
    /\ ~hung /\ Top.k = "page" /\ Top.pc = "write"
    /\ \E ok \in BOOLEAN :
         IF ok
         THEN /\ files' = (getPageOutputPath(Top.url) :> File(Top.url, Top.html)) @@ files
              /\ successfulDownloads' = successfulDownloads \cup {Top.url}
              /\ stats' = recordPageSuccess(stats, Top.url, getPageOutputPath(Top.url))
              /\ hist' = [hist EXCEPT !.pageSave = Bump(@, Top.url)]
              /\ main' = WithTop([Top EXCEPT !.pc = "delay"])
              /\ UNCHANGED <<failedDownloads, ret>>
         ELSE /\ failedDownloads' = addFailed(failedDownloads, Top.url)
              /\ stats' = recordPageFailure(stats, Top.url)
              /\ hist' = [hist EXCEPT !.pageIoFailed = @ \cup {Top.url}]
              /\ Return(Null)
              /\ UNCHANGED <<files, successfulDownloads>>
    /\ UNCHANGED <<disk, program, visited, crawlers, site,
                   visitedUrls, assetMap, pendingDownloads, rewritten, tasks,
                   hung, report>>

\* this.delay(delayBetweenRequests) has ended: the page or asset call returns
DelayDone ==
    /\ ~hung /\ Top.pc = "delay"
    /\ Return(IF Top.k = "page" THEN Null ELSE Top.name)
    /\ UNCHANGED <<disk, program, visited, crawlers, site,
                   visitedUrls, assetMap, pendingDownloads, failedDownloads,
                   successfulDownloads, stats, files, rewritten, tasks, hung, report, hist>>

(***************************************************************************)
(* downloadAsset and downloadFontAsset: the steps of the awaited chain      *)
(***************************************************************************)
\* the transport call of a download of the chain has ended.  It fails when
\* retryRequest throws: the last attempt met a transport error, or axios
\* rejected a body larger than maxContentLength (maxFileSize).
AssetFetchDone ==
    /\ ~hung /\ Top.k \in {"asset", "font"} /\ Top.pc = "fetch"
    /\ LET f == Top IN
       \E ok \in BOOLEAN :
         IF retryRequest(f.attempt, ok) = "again"
         THEN /\ main' = WithTop([f EXCEPT !.attempt = @ + 1, !.backoff = retryDelay(f.attempt)])
              /\ UNCHANGED <<failedDownloads, stats, hung, ret, hist>>
         ELSE IF retryRequest(f.attempt, ok) = "throw"
         THEN /\ FailAsset(f.url, f.type)
              /\ hist' = [hist EXCEPT !.txFailed = @ \cup {f.url}, !.assetFail = Bump(@, f.url),
                                      !.thrownAfter = f.attempt]
              /\ Return(Null)
              /\ UNCHANGED hung
         ELSE IF isSkipped(f.url)
         THEN /\ hist' = [hist EXCEPT !.txOk = @ \cup {f.url}, !.skipped = @ \cup {f.url}]
              /\ Return(Null)
              /\ UNCHANGED <<failedDownloads, stats, hung>>
         ELSE IF isHtmlBranch(f.k, f.url)
         THEN /\ hist' = [hist EXCEPT !.txOk = @ \cup {f.url}]
              /\ main' = WithTop([f EXCEPT !.pc = "htmlwrite"])
              /\ UNCHANGED <<failedDownloads, stats, hung, ret>>
         ELSE IF resolveName(f.k, f.url, f.type) = Diverges
         THEN /\ hung' = TRUE
              /\ UNCHANGED <<failedDownloads, stats, main, ret, hist>>
         ELSE /\ hist' = [hist EXCEPT !.txOk = @ \cup {f.url}]
              /\ main' = WithTop([f EXCEPT !.pc = "write",
                                           !.name = resolveName(f.k, f.url, f.type)])
              /\ UNCHANGED <<failedDownloads, stats, hung, ret>>
    /\ UNCHANGED <<disk, program, visited, crawlers, site,
                   visitedUrls, assetMap, pendingDownloads, successfulDownloads,
                   files, rewritten, tasks, report>>

\* fs.outputFile of a download of the chain has ended
AssetWriteDone ==
    /\ ~hung /\ Top.k \in {"asset", "font"} /\ Top.pc \in {"write", "htmlwrite"}
    /\ LET f == Top IN
       \E ok \in BOOLEAN :
         IF ~ok
         THEN /\ FailAsset(f.url, f.type)
              /\ hist' = [hist EXCEPT !.assetIoFailed = @ \cup {f.url}, !.assetFail = Bump(@, f.url)]
              /\ Return(Null)
              /\ UNCHANGED <<files, assetMap, successfulDownloads>>
         ELSE IF f.pc = "htmlwrite"
         THEN /\ files' = (getPageOutputPath(f.url) :> File(f.url, {})) @@ files
              /\ successfulDownloads' = successfulDownloads \cup {f.url}
              /\ stats' = recordPageSuccess(stats, f.url, getPageOutputPath(f.url))
              /\ Return(Null)
              /\ UNCHANGED <<assetMap, failedDownloads, hist>>
         ELSE /\ StoreAsset(f.k, f.url, f.type, f.name)
              /\ main' = WithTop(IF f.k = "asset" /\ responseExtension(f.url) = "css"
                                 THEN [f EXCEPT !.pc = "css", !.q = srcUrls(Sheet(site, f.url))]
                                 ELSE [f EXCEPT !.pc = "delay"])
              /\ UNCHANGED <<failedDownloads, ret, hist>>
    /\ UNCHANGED <<disk, program, visited, crawlers, site,
                   visitedUrls, pendingDownloads, rewritten, tasks, hung, report>>

\* processCssFile: the fonts of the @font-face blocks, one after the other,
\* then the url() pass and the write of the rewritten sheet
CssStep ==
    /\ ~hung /\ Top.k = "asset" /\ Top.pc = "css"
    /\ LET f == Top IN
       IF f.wait
       THEN /\ main' = WithTop([f EXCEPT !.q = Tail(@), !.wait = FALSE])
            /\ rewritten' = IF ret # Null
                            THEN rewritten \cup {Rewrite(f.url, Head(f.q), assetRef("fonts", ret))}
                            ELSE rewritten
            /\ ret' = Null
            /\ UNCHANGED <<files, hist>>
       ELSE IF f.q = <<>>
       THEN \* rewriteCssUrls over the sheet, then fs.writeFile; its error is caught
            LET rw == rewritten \cup
                         rewriteCssUrls(rewritten, assetMap, f.url, cssUrls(Sheet(site, f.url)))
            IN  /\ rewritten' = rw
                /\ main' = WithTop([f EXCEPT !.pc = "delay"])
                /\ \E ok \in BOOLEAN :
                     IF ok
                     THEN /\ files' = [files EXCEPT ![FilePath(assetsDir, f.name)] =
                                          File(f.url, rewritesOf(rw, f.url))]
                          /\ UNCHANGED hist
                     ELSE /\ hist' = [hist EXCEPT !.cssIoFailed = @ \cup {f.url}]
                          /\ UNCHANGED files
                /\ UNCHANGED ret
       ELSE IF Head(f.q) \in DOMAIN assetMap
       THEN /\ main' = WithTop([f EXCEPT !.q = Tail(@)])
            /\ rewritten' = rewritten \cup
                   {Rewrite(f.url, Head(f.q), assetRef("fonts", assetMap[Head(f.q)]))}
            /\ UNCHANGED <<ret, files, hist>>
       ELSE /\ EnterAsset(Head(f.q), "fonts", [f EXCEPT !.wait = TRUE])
            /\ UNCHANGED <<rewritten, ret, files>>
    /\ UNCHANGED <<disk, program, visited, crawlers, site,
                   visitedUrls, assetMap, pendingDownloads, failedDownloads,
                   successfulDownloads, stats, tasks, hung, report>>

(***************************************************************************)
(* The retry sweep and the report                                          *)
(***************************************************************************)
\* retryFailedDownloads: the snapshot of failedDownloads, which is cleared
RetryFailedDownloads ==
    /\ ~hung /\ Top.k = "site" /\ Top.pc = "crawl"
    /\ IF failedDownloads = <<>>
       THEN /\ main' = WithTop([Top EXCEPT !.pc = "sweep"])
            /\ UNCHANGED failedDownloads
       ELSE /\ main' = Append(WithTop([Top EXCEPT !.pc = "sweep"]),
                              [Frame("sweep", BaseUrl, "other", "loop") EXCEPT !.q = failedDownloads])
            /\ failedDownloads' = <<>>
    /\ hist' = [hist EXCEPT !.snapshot = failedDownloads]
    /\ ret' = Null
    /\ UNCHANGED <<disk, program, visited, crawlers, site,
                   visitedUrls, assetMap, pendingDownloads, successfulDownloads,
                   stats, files, rewritten, tasks, hung, report>>

\* one turn of the loop over the snapshot
SweepStep ==
    /\ ~hung /\ Top.k = "sweep"
    /\ LET f == Top
           skip == [f EXCEPT !.q = Tail(@), !.wait = FALSE]
           waiting == [f EXCEPT !.wait = TRUE]
       IN  IF f.wait
           THEN /\ main' = WithTop(skip)
                /\ ret' = Null
                /\ UNCHANGED <<visitedUrls, failedDownloads, hung, hist>>
           ELSE IF f.q = <<>>
           THEN /\ Return(Null)
                /\ UNCHANGED <<visitedUrls, failedDownloads, hung, hist>>
           ELSE LET u == Head(f.q)
                    t == retryType(u)
                IN  IF t \in {"page", "other"} /\ ~Parseable(u)
                    THEN \* isLikelyHtmlPage throws: the catch of the sweep
                         /\ failedDownloads' = addFailed(failedDownloads, u)
                         /\ main' = WithTop(skip)
                         /\ UNCHANGED <<visitedUrls, hung, ret, hist>>
                    ELSE IF t = "page"
                    THEN IF generateFilename(assetMap, u, "html", "") = Diverges
                         THEN /\ hung' = TRUE
                              /\ UNCHANGED <<visitedUrls, failedDownloads, main, ret, hist>>
                         ELSE IF u \in visitedUrls
                         THEN /\ main' = WithTop(skip)
                              /\ UNCHANGED <<visitedUrls, failedDownloads, hung, ret, hist>>
                         ELSE /\ EnterPage(u, waiting)
                              /\ UNCHANGED <<failedDownloads, hung, ret>>
                    ELSE IF u \in DOMAIN assetMap
                         THEN /\ main' = WithTop(skip)
                              /\ UNCHANGED <<visitedUrls, failedDownloads, hung, ret, hist>>
                         ELSE /\ EnterAsset(u, t, waiting)
                              /\ UNCHANGED <<visitedUrls, failedDownloads, hung, ret>>
    /\ UNCHANGED <<disk, program, visited, crawlers, site,
                   assetMap, pendingDownloads, successfulDownloads,
                   stats, files, rewritten, tasks, report>>

\* generateStatistics: the report object
buildReport ==
    [summary |->
        [totalDownloads |-> Cardinality(successfulDownloads) + Len(failedDownloads),
         successful |-> Cardinality(successfulDownloads),
         failed |-> Len(failedDownloads)],
     detailed |->
        [successful |-> [total |-> stats.successful.pages + stats.successful.assets,
                         pages |-> stats.successful.pages,
                         assets |-> stats.successful.assets,
                         byType |-> stats.successful.byType],
         failed |-> [total |-> stats.failed.pages + stats.failed.assets,
                     pages |-> stats.failed.pages,
                     assets |-> stats.failed.assets,
                     byType |-> stats.failed.byType]],
     urls |-> [successful |-> stats.urls.successful, failed |-> stats.urls.failed]]

GenerateStatistics ==
    /\ ~hung /\ Top.k = "site" /\ Top.pc = "sweep"
    /\ report' = buildReport
    /\ main' = WithTop([Top EXCEPT !.pc = "done"])
    /\ ret' = Null
    /\ UNCHANGED <<disk, program, visited, crawlers, site,
                   visitedUrls, assetMap, pendingDownloads, failedDownloads,
                   successfulDownloads, stats, files, rewritten, tasks, hung, hist>>

(***************************************************************************)
(* The detached <style> callbacks: rewriteFontFaceUrls over the block,     *)
(* downloadFontAsset for each url() of its @font-face src.                 *)
(***************************************************************************)
\* the callback has dealt with the head of t.q and goes on to the next url()
taskAdvance(t) ==
    LET q == Tail(t.q)
    IN  [t EXCEPT !.q = q, !.attempt = 1, !.backoff = 0,
                  !.pc = IF q = <<>> \/ Head(q) \in DOMAIN assetMap THEN "resume" ELSE "fetch"]

TaskAdvance(i) ==
    /\ tasks' = [tasks EXCEPT ![i] = taskAdvance(tasks[i])]
    /\ hist' = [hist EXCEPT !.assetFetch = BumpAll(@, <<taskAdvance(tasks[i])>>)]

TaskFetchDone(i) ==
    /\ ~hung /\ tasks[i].pc = "fetch"
    /\ LET t == tasks[i]
           u == Head(t.q)
       IN  \E ok \in BOOLEAN :
             IF retryRequest(t.attempt, ok) = "again"
             THEN /\ tasks' = [tasks EXCEPT ![i] =
                                 [t EXCEPT !.attempt = @ + 1, !.backoff = retryDelay(t.attempt)]]
                  /\ UNCHANGED <<failedDownloads, stats, hung, hist>>
             ELSE IF retryRequest(t.attempt, ok) = "throw"
             THEN /\ FailAsset(u, "fonts")
                  /\ tasks' = [tasks EXCEPT ![i] = taskAdvance(t)]
                  /\ hist' = [hist EXCEPT !.assetFetch = BumpAll(@, <<taskAdvance(t)>>),
                                          !.txFailed = @ \cup {u}, !.assetFail = Bump(@, u),
                                          !.thrownAfter = t.attempt]
                  /\ UNCHANGED hung
             ELSE IF isSkipped(u)
             THEN /\ tasks' = [tasks EXCEPT ![i] = taskAdvance(t)]
                  /\ hist' = [hist EXCEPT !.assetFetch = BumpAll(@, <<taskAdvance(t)>>),
                                          !.txOk = @ \cup {u}, !.skipped = @ \cup {u}]
                  /\ UNCHANGED <<failedDownloads, stats, hung>>
             ELSE IF resolveName("font", u, "fonts") = Diverges
             THEN /\ hung' = TRUE
                  /\ UNCHANGED <<failedDownloads, stats, tasks, hist>>
             ELSE /\ tasks' = [tasks EXCEPT ![i] =
                                 [t EXCEPT !.pc = "write", !.name = resolveName("font", u, "fonts")]]
                  /\ hist' = [hist EXCEPT !.txOk = @ \cup {u}]
                  /\ UNCHANGED <<failedDownloads, stats, hung>>
    /\ UNCHANGED <<disk, program, visited, crawlers, site,
                   visitedUrls, assetMap, pendingDownloads, successfulDownloads,
                   files, rewritten, main, ret, report>>

TaskWriteDone(i) ==
    /\ ~hung /\ tasks[i].pc = "write"
    /\ LET t == tasks[i]
           u == Head(t.q)
       IN  \E ok \in BOOLEAN :
             IF ~ok
             THEN /\ FailAsset(u, "fonts")
                  /\ tasks' = [tasks EXCEPT ![i] = taskAdvance(t)]
                  /\ hist' = [hist EXCEPT !.assetFetch = BumpAll(@, <<taskAdvance(t)>>),
                                          !.assetIoFailed = @ \cup {u}, !.assetFail = Bump(@, u)]
                  /\ UNCHANGED <<files, assetMap, successfulDownloads>>
             ELSE /\ StoreAsset("font", u, "fonts", t.name)
                  /\ tasks' = [tasks EXCEPT ![i] = [t EXCEPT !.pc = "delay"]]
                  /\ UNCHANGED <<failedDownloads, hist>>
    /\ UNCHANGED <<disk, program, visited, crawlers, site,
                   visitedUrls, pendingDownloads, rewritten, main, ret, hung, report>>

\* the callback continues after a font that is stored: the src value is
\* rewritten; after the last url() the <style> element is set and the callback ends
TaskContinue(i) ==
    /\ ~hung /\ tasks[i].pc \in {"delay", "resume"}
    /\ LET t == tasks[i] IN
       IF t.q = <<>>
       THEN /\ tasks' = RemoveAt(tasks, i)
            /\ UNCHANGED <<rewritten, hist>>
       ELSE /\ rewritten' = rewritten \cup
                   {Rewrite(t.doc, Head(t.q), assetRef("fonts", assetMap[Head(t.q)]))}
            /\ TaskAdvance(i)
    /\ UNCHANGED <<disk, program, visited, crawlers, site,
                   visitedUrls, assetMap, pendingDownloads, failedDownloads,
                   successfulDownloads, stats, files, main, ret, hung, report>>

(***************************************************************************)
(* The simple crawler of index.js.  The script clears the output directory *)
(* and calls downloadPage(baseURL) without awaiting it; every link of a    *)
(* page starts another call of downloadPage that nobody awaits.  A call is *)
(* a record of crawlers: the page, where the call waits, and the asset     *)
(* downloads of Promise.all that have not settled.                         *)
(***************************************************************************)
\* the order in which downloadPage pushes the downloads on assetPromises
assetPromises(d) == d.img \o d.css \o d.js

\* one path segment after sanitizePath: every character that is not a letter,
\* a digit or a slash becomes an underscore
sanitizedName(u) ==
    CASE u = BadHref        -> "_bad"
      [] u \in {ImgA, ImgB} -> "a_png"
      [] u = Big            -> "big_png"
      [] u = SCss           -> "s_css"
      [] u = FontF          -> "f_woff2"
      [] OTHER              -> u.name

\* sanitizePath(pageURL.replace(baseURL, '').replace(/\/$/, '')), as segments
sanitizePath(u) ==
    (IF u.dir = "" THEN <<>> ELSE <<u.dir>>) \o (IF u.name = "" THEN <<>> ELSE <<sanitizedName(u)>>)

\* path.join(downloadDir, sanitizePath(relativePath) || 'index', 'index.html')
pageFilename(u) ==
    FilePath(outputDir \o (IF sanitizePath(u) = <<>> THEN <<"index">> ELSE sanitizePath(u)),
             IndexHtml)

\* path.basename(fullURL)
basename(u) == FileName(<<u.name>>, u.ext, 0)

\* updateAssetLinks(html): every img, stylesheet and script points to /assets/<basename>
updateAssetLinks(u) ==
    LET as == assetPromises(Doc(site, u))
    IN  {Rewrite(u, as[j], FilePath(<<"assets">>, basename(as[j]))) : j \in 1..Len(as)}

\* downloadPage(pageURL) up to its first await: the visited gate and the request.
\* st holds visited, crawlers and the history.
downloadPage(st, u) ==
    IF u \in st.visited THEN st
    ELSE [visited  |-> st.visited \cup {u},
          crawlers |-> Append(st.crawlers, [url |-> u, pc |-> "fetch", pend |-> {}, cdn |-> {}]),
          hist     |-> [st.hist EXCEPT !.gate = Bump(@, u), !.pageFetch = Bump(@, u)]]

\* url.resolve(pageURL, href) throws: the legacy parser decodes the userinfo
\* of the href with decodeURIComponent
urlResolveThrows(u) == u = BadAuth

\* $('a').each(...): downloadPage for every link that starts with baseURL.
\* An exception of url.resolve ends the loop in the catch of downloadPage.
RECURSIVE crawlLinks(_, _)
crawlLinks(st, links) ==
    IF links = <<>> THEN st
    ELSE IF urlResolveThrows(Head(links)) THEN st
    ELSE crawlLinks(IF startsWithBaseUrl(Head(links)) THEN downloadPage(st, Head(links)) ELSE st,
                    Tail(links))

\* the top level of the script: clearPreviousDownloads(); downloadPage(baseURL)
IndexStart ==
    /\ program = "index.js" /\ Top.k = "site" /\ Top.pc = "start"
    /\ LET st == downloadPage([visited |-> visited, crawlers |-> crawlers, hist |-> hist], BaseUrl)
       IN  visited' = st.visited /\ crawlers' = st.crawlers /\ hist' = st.hist
    /\ files' = <<>>
    /\ main' = WithTop([Top EXCEPT !.pc = "detached"])
    /\ UNCHANGED <<disk, program, site, visitedUrls, assetMap, pendingDownloads, failedDownloads,
                   successfulDownloads, stats, rewritten, ret, tasks, hung, report>>

\* axios.get(pageURL) of a call has ended; on success the page is written
\* with writeFileSync and the downloads of its assets are started
IndexPageFetchDone(i) ==
    /\ crawlers[i].pc = "fetch"
    /\ LET c == crawlers[i]
           u == c.url
       IN  \E outcome \in {"failed", "written", "writeFailed"} :
             CASE outcome = "failed" ->
                    /\ crawlers' = RemoveAt(crawlers, i)
                    /\ hist' = [hist EXCEPT !.txFailed = @ \cup {u}]
                    /\ UNCHANGED <<files, rewritten>>
               [] outcome = "writeFailed" ->
                    /\ crawlers' = RemoveAt(crawlers, i)
                    /\ hist' = [hist EXCEPT !.txOk = @ \cup {u}, !.pageOk = @ \cup {u},
                                            !.pageIoFailed = @ \cup {u}]
                    /\ UNCHANGED <<files, rewritten>>
               [] outcome = "written" ->
                    /\ files' = (pageFilename(u) :> File(u, updateAssetLinks(u))) @@ files
                    /\ rewritten' = rewritten \cup updateAssetLinks(u)
                    /\ crawlers' = [crawlers EXCEPT ![i] =
                          [c EXCEPT !.pc = "assets",
                                    !.pend = 1..Len(assetPromises(Doc(site, u)))]]
                    /\ hist' = [hist EXCEPT !.txOk = @ \cup {u}, !.pageOk = @ \cup {u},
                                            !.pageSave = Bump(@, u)]
    /\ UNCHANGED <<disk, program, site, visited, visitedUrls, assetMap, pendingDownloads,
                   failedDownloads, successfulDownloads, stats, main, ret, tasks, hung, report>>

\* cssContent.match(cdnRegex): the URLs of the CDN in the text of a style sheet
cdnMatches(block) == SelectSeq(cssUrls(block), LAMBDA x : x.host = CdnUrl.host)

\* the downloads that downloadCdnResources starts for download j of a page
\* with the document d: those of a style sheet that was fetched and written
cdnDownloads(d, j, ok) ==
    IF ok /\ j > Len(d.img) /\ j <= Len(d.img) + Len(d.css)
    THEN {<<j, k>> : k \in 1..Len(cdnMatches(Sheet(site, assetPromises(d)[j])))}
    ELSE {}

\* the request of one download of assetPromises has ended: downloadAsset,
\* downloadCSS or downloadJS wrote assets/<basename>, or caught its error.
\* downloadCSS then awaits the downloads of the CDN URLs of the sheet.
IndexAssetDone(i) ==
    /\ crawlers[i].pc = "assets"
    /\ LET c == crawlers[i]
           as == assetPromises(Doc(site, c.url))
       IN  \E j \in c.pend, ok \in BOOLEAN :
             /\ crawlers' = [crawlers EXCEPT ![i] =
                                [c EXCEPT !.pend = @ \ {j},
                                          !.cdn = @ \cup cdnDownloads(Doc(site, c.url), j, ok)]]
             /\ files' = IF ok THEN (FilePath(assetsDir, basename(as[j])) :> File(as[j], {})) @@ files
                         ELSE files
    /\ UNCHANGED <<disk, program, site, visited, visitedUrls, assetMap, pendingDownloads,
                   failedDownloads, successfulDownloads, stats, rewritten, main, ret, tasks,
                   hung, report, hist>>

\* downloadCdnResource: one download of a CDN URL settles; it wrote
\* assets/<basename>, or caught its error
IndexCdnDone(i) ==
    /\ crawlers[i].pc = "assets"
    /\ LET c == crawlers[i]
           as == assetPromises(Doc(site, c.url))
       IN  \E e \in c.cdn, ok \in BOOLEAN :
             LET u == cdnMatches(Sheet(site, as[e[1]]))[e[2]]
             IN  /\ crawlers' = [crawlers EXCEPT ![i] = [c EXCEPT !.cdn = @ \ {e}]]
                 /\ files' = IF ok THEN (FilePath(assetsDir, basename(u)) :> File(u, {})) @@ files
                             ELSE files
    /\ UNCHANGED <<disk, program, site, visited, visitedUrls, assetMap, pendingDownloads,
                   failedDownloads, successfulDownloads, stats, rewritten, main, ret, tasks,
                   hung, report, hist>>

\* Promise.all has resolved: the links of the page are followed and the call ends
IndexLinks(i) ==
    /\ crawlers[i].pc = "assets" /\ crawlers[i].pend = {} /\ crawlers[i].cdn = {}
    /\ LET st == crawlLinks([visited |-> visited, crawlers |-> RemoveAt(crawlers, i),
                             hist |-> hist],
                            Doc(site, crawlers[i].url).links)
       IN  visited' = st.visited /\ crawlers' = st.crawlers /\ hist' = st.hist
    /\ UNCHANGED <<disk, program, site, visitedUrls, assetMap, pendingDownloads, failedDownloads,
                   successfulDownloads, stats, files, rewritten, main, ret, tasks, hung, report>>

Next ==
    \/ StartSite
    \/ PageFetchDone
    \/ PageItem
    \/ PageResume
    \/ PageWriteDone
    \/ DelayDone
    \/ AssetFetchDone
    \/ AssetWriteDone
    \/ CssStep
    \/ RetryFailedDownloads
    \/ SweepStep
    \/ GenerateStatistics
    \/ \E i \in 1..Len(tasks) : TaskFetchDone(i)
    \/ \E i \in 1..Len(tasks) : TaskWriteDone(i)
    \/ \E i \in 1..Len(tasks) : TaskContinue(i)
    \/ IndexStart
    \/ \E i \in 1..Len(crawlers) : IndexPageFetchDone(i)
    \/ \E i \in 1..Len(crawlers) : IndexAssetDone(i)
    \/ \E i \in 1..Len(crawlers) : IndexCdnDone(i)
    \/ \E i \in 1..Len(crawlers) : IndexLinks(i)

Spec == Init /\ [][Next]_vars

(***************************************************************************)
(* init() and cleanPublicFolder, over what an earlier run or the user left *)
(* in the output directory.  An entry of a directory is its name (with     *)
(* what startsWith('download-statistics-') and endsWith('.json') say of    *)
(* it) and its kind.  fs.stat follows symbolic links, so it throws for a   *)
(* link whose target is gone.  fs.readdir gives the entries in any order.  *)
(***************************************************************************)
Entry(n, pre, suf, kind) == [name |-> n, prefix |-> pre, json |-> suf, kind |-> kind]

OldReport  == Entry("download-statistics-1.json", TRUE, TRUE, "file")
OldPartial == Entry("download-statistics-old", TRUE, FALSE, "file")
OldNotes   == Entry("notes.json", FALSE, TRUE, "file")
OldPage    == Entry("index.html", FALSE, FALSE, "file")
OldAssets  == Entry("assets", FALSE, FALSE, "dir")
OldLink    == Entry("latest", FALSE, FALSE, "danglingLink")

PubEntries == {OldReport, OldPartial, OldNotes, OldPage, OldAssets, OldLink}

\* item.startsWith('download-statistics-') && item.endsWith('.json')
isStatisticsFile(e) == e.prefix /\ e.json

\* fs.stat(itemPath) throws
statThrows(e) == e.kind = "danglingLink"

InitCleanup ==
    /\ \E p \in SUBSET PubEntries :
         disk = [before |-> p, pub |-> p, cwd |-> {OldReport}, todo |-> {}, pc |-> "start"]
    /\ program = "SiteDownloader"
    /\ site \in Sites
    /\ visited = {}
    /\ crawlers = <<>>
    /\ visitedUrls = {}
    /\ assetMap = <<>>
    /\ pendingDownloads = {}
    /\ failedDownloads = <<>>
    /\ successfulDownloads = {}
    /\ stats = InitStats
    /\ files = <<>>
    /\ rewritten = {}
    /\ main = <<Frame("site", BaseUrl, "page", "init")>>
    /\ ret = Null
    /\ tasks = <<>>
    /\ hung = FALSE
    /\ report = NoReport
    /\ hist = InitHist

runVars == <<program, visited, crawlers, site, visitedUrls, assetMap, pendingDownloads,
             failedDownloads, successfulDownloads, stats, files, rewritten, main, ret,
             tasks, hung, report, hist>>

\* fs.pathExists and fs.readdir(this.outputDir)
CleanReaddir ==
    /\ disk.pc = "start"
    /\ disk' = [disk EXCEPT !.todo = disk.pub, !.pc = "loop"]
    /\ UNCHANGED runVars

\* one turn of the loop over the items; a throw ends the loop in the catch
CleanItem ==
    /\ disk.pc = "loop"
    /\ \E e \in disk.todo :
         IF statThrows(e)
         THEN disk' = [disk EXCEPT !.todo = {}, !.pc = "ensure"]
         ELSE IF isStatisticsFile(e)
         THEN disk' = [disk EXCEPT !.todo = @ \ {e}]
         ELSE disk' = [disk EXCEPT !.todo = @ \ {e}, !.pub = @ \ {e}]
    /\ UNCHANGED runVars

\* the loop has ended
CleanDone ==
    /\ disk.pc = "loop" /\ disk.todo = {}
    /\ disk' = [disk EXCEPT !.pc = "ensure"]
    /\ UNCHANGED runVars

\* init() after the cleanup: fs.ensureDir of outputDir, assetsDir and fontsDir
EnsureDirs ==
    /\ disk.pc = "ensure"
    /\ disk' = [disk EXCEPT !.pub = @ \cup {OldAssets}, !.pc = "ready"]
    /\ UNCHANGED runVars

NextCleanup ==
    \/ CleanReaddir
    \/ CleanItem
    \/ CleanDone
    \/ EnsureDirs

SpecCleanup == InitCleanup /\ [][NextCleanup]_vars

(***************************************************************************)
(* The filename resolver on its own: one call of generateFilename or of    *)
(* generateFontFilename, for a URL, a category and an advisory extension,  *)
(* on an assetMap that is empty or holds one name the run can have stored. *)
(***************************************************************************)
\* an image whose name holds a percent-encoded space
PlayButton == Url("cdn.test", "", "play%20button", "svg", FALSE)

ResolverUrls == {BaseUrl, Logo, ImgA, SCss, FontF, Docs, BadHref, PlayButton}

ResolverTypes == {"html", "css", "images", "other"}

\* the names downloadAsset and downloadFontAsset can have stored for u
StorableNames(u) ==
    {generateFilename(<<>>, u, t, getFileExtension(u, ContentType(u))) :
        t \in ResolverTypes \ {"html"}}
    \cup {generateFontFilename(<<>>, u, getFontExtension(u, ContentType(u)))}

StoredMaps ==
    {<<>>} \cup UNION {{(u :> n) : n \in StorableNames(u)} :
                          u \in {v \in ResolverUrls : Parseable(v)}}

\* the content-type headers of the responses the names are resolved for
ResolverContentTypes(u) == {"", ContentType(u), "font/ttf"}

\* the frame of a resolver call: q holds the advisory extension and the
\* content-type header it was derived from
ResolverCall(k, u, t, e, ct) == [Frame(k, u, t, "call") EXCEPT !.q = <<e, ct>>]

InitResolver ==
    /\ assetMap \in StoredMaps
    /\ \E u \in ResolverUrls :
         \/ \E t \in ResolverTypes, ct \in ResolverContentTypes(u) :
              \E e \in {"", getFileExtension(u, ct)} :
                 main = <<ResolverCall("generateFilename", u, t, e, ct)>>
         \/ \E ct \in ResolverContentTypes(u) :
               main = <<ResolverCall("generateFontFilename", u, "fonts",
                                     getFontExtension(u, ct), ct)>>
    /\ disk = CleanDisk
    /\ program = "SiteDownloader"
    /\ site = "assets"
    /\ visited = {}
    /\ crawlers = <<>>
    /\ visitedUrls = {}
    /\ pendingDownloads = {}
    /\ failedDownloads = <<>>
    /\ successfulDownloads = DOMAIN assetMap
    /\ stats = InitStats
    /\ files = <<>>
    /\ rewritten = {}
    /\ ret = Null
    /\ tasks = <<>>
    /\ hung = FALSE
    /\ report = NoReport
    /\ hist = InitHist

\* the call ends: with a name, with an exception, or not at all
resolverEnds(name) ==
    /\ Top.pc = "call" /\ ~hung
    /\ IF name = Diverges
       THEN hung' = TRUE /\ UNCHANGED <<main, ret>>
       ELSE IF name = Throws
       THEN main' = <<[Top EXCEPT !.pc = "thrown"]>> /\ UNCHANGED <<hung, ret>>
       ELSE main' = <<[Top EXCEPT !.pc = "returned"]>> /\ ret' = name /\ UNCHANGED hung
    /\ UNCHANGED <<disk, program, visited, crawlers, site, visitedUrls, assetMap,
                   pendingDownloads, failedDownloads, successfulDownloads, stats,
                   files, rewritten, tasks, report, hist>>

CallGenerateFilename ==
    /\ Top.k = "generateFilename"
    /\ resolverEnds(generateFilename(assetMap, Top.url, Top.type, Top.q[1]))

CallGenerateFontFilename ==
    /\ Top.k = "generateFontFilename"
    /\ resolverEnds(generateFontFilename(assetMap, Top.url, Top.q[1]))

NextResolver ==
    \/ CallGenerateFilename
    \/ CallGenerateFontFilename

SpecResolver == InitResolver /\ [][NextResolver]_vars

(***************************************************************************)
(* bypass403.js: getFilenameFromUrl and one call of downloadFile.  A file  *)
(* name is the sequence of its pieces; a piece of a pathname is text or a  *)
(* percent escape.  The response body arrives in ResponseChunks chunks.    *)
(***************************************************************************)
ResponseChunks == 2

\* a string passed as fileUrl: whether new URL accepts it, the segments of
\* its pathname, and whether the pathname has no slash (an opaque path)
FileUrl(ok, segs, opaque) == [parses |-> ok, path |-> segs, opaque |-> opaque]

BypassUrls ==
    { \* the URL of main(): .../5df5/playbutton%20white%2Cno.svg
      FileUrl(TRUE, << <<"5df5">>, <<"playbutton", "%20", "white", "%2C", "no.svg">> >>, FALSE),
      \* https://cdn.test/
      FileUrl(TRUE, <<>>, FALSE),
      \* https://cdn.test/files/
      FileUrl(TRUE, << <<"files">>, <<>> >>, FALSE),
      \* 'not a url'
      FileUrl(FALSE, <<>>, FALSE),
      \* https://cdn.test/a%2Fb.svg
      FileUrl(TRUE, << <<"a", "%2F", "b.svg">> >>, FALSE),
      \* https://cdn.test/..%2Fout.svg
      FileUrl(TRUE, << <<"..", "%2F", "out.svg">> >>, FALSE),
      \* https://cdn.test/%zz
      FileUrl(TRUE, << <<"%zz">> >>, FALSE),
      \* https://cdn.test/%3Fx
      FileUrl(TRUE, << <<"%3F", "x">> >>, FALSE),
      \* urn:report
      FileUrl(TRUE, << <<"report">> >>, TRUE) }

\* the customFilename arguments: none (null), or 'out.bin'
CustomFilenames == {<<>>, <<"out.bin">>}

\* path.basename of the pathname: its last segment, trailing slashes dropped
RECURSIVE pathBasename(_)
pathBasename(p) ==
    IF p = <<>> THEN <<>>
    ELSE IF p[Len(p)] # <<>> THEN p[Len(p)]
    ELSE pathBasename(SubSeq(p, 1, Len(p) - 1))

MalformedEscapes == {"%zz"}

decodePiece(x) ==
    CASE x = "%20" -> " "
      [] x = "%2C" -> ","
      [] x = "%2F" -> "/"
      [] x = "%3F" -> "?"
      [] OTHER     -> x

\* decodeURIComponent throws URIError on a malformed escape
decodeThrows(s) == \E j \in 1..Len(s) : s[j] \in MalformedEscapes

decodeURIComponent(s) == [j \in 1..Len(s) |-> decodePiece(s[j])]

\* filename.split('?')[0]
RECURSIVE beforeQuestion(_)
beforeQuestion(s) ==
    IF s = <<>> \/ Head(s) = "?" THEN <<>>
    ELSE <<Head(s)>> \o beforeQuestion(Tail(s))

\* `download-${timestamp}.bin`, the timestamp with ':' and '.' replaced
FallbackName == <<"download-", "2026-11-05T08-12-27-000Z", ".bin">>

getFilenameFromUrl(fileUrl) ==
    IF ~fileUrl.parses THEN FallbackName
    ELSE IF decodeThrows(pathBasename(fileUrl.path)) THEN FallbackName
    ELSE LET filename == beforeQuestion(decodeURIComponent(pathBasename(fileUrl.path)))
         IN  IF filename = <<>> \/ fileUrl.opaque THEN FallbackName ELSE filename

\* the call downloadFile(fileUrl, customFilename)
DownloadCall(u, c) ==
    [k |-> "downloadFile", url |-> u, custom |-> c, pc |-> "start",
     name |-> <<>>, open |-> FALSE, wrote |-> 0, unlink |-> "none"]

\* a file of the file system of bypass403.js
Output(u, size, complete) == [url |-> u, size |-> size, complete |-> complete]

\* the directory a name points into exists: the working directory itself, or
\* its parent; no other directory is ever created
dirExists(name) == "/" \notin SeqSet(name) \/ Head(name) = ".."

InitBypass ==
    /\ \E u \in BypassUrls, c \in CustomFilenames : main = <<DownloadCall(u, c)>>
    /\ disk = CleanDisk
    /\ program = "bypass403.js"
    /\ site = "assets"
    /\ visited = {}
    /\ crawlers = <<>>
    /\ visitedUrls = {}
    /\ assetMap = <<>>
    /\ pendingDownloads = {}
    /\ failedDownloads = <<>>
    /\ successfulDownloads = {}
    /\ stats = InitStats
    /\ files = <<>>
    /\ rewritten = {}
    /\ ret = Null
    /\ tasks = <<>>
    /\ hung = FALSE
    /\ report = NoReport
    /\ hist = InitHist

\* line 30, and the request of line 33 is sent
CallDownloadFile ==
    /\ Top.k = "downloadFile" /\ Top.pc = "start"
    /\ main' = <<[Top EXCEPT !.pc = "request",
                             !.name = IF Top.custom # <<>> THEN Top.custom
                                      ELSE getFilenameFromUrl(Top.url)]>>
    /\ UNCHANGED <<files, ret, hung>>
    /\ UNCHANGED <<disk, program, visited, crawlers, site, visitedUrls, assetMap,
                   pendingDownloads, failedDownloads, successfulDownloads, stats,
                   rewritten, tasks, report, hist>>

\* the request settles: the catch of line 79 rethrows its error; otherwise
\* createWriteStream opens (and truncates) the output file and pipe starts
RequestDone ==
    /\ Top.k = "downloadFile" /\ Top.pc = "request"
    /\ \E ok \in BOOLEAN :
         IF ~ok \/ ~Top.url.parses
         THEN /\ main' = <<[Top EXCEPT !.pc = "rejected"]>>
              /\ UNCHANGED files
         ELSE IF dirExists(Top.name)
         THEN /\ main' = <<[Top EXCEPT !.pc = "transfer", !.open = TRUE]>>
              /\ files' = (Top.name :> Output(Top.url, 0, FALSE)) @@ files
         ELSE /\ main' = <<[Top EXCEPT !.pc = "transfer"]>>
              /\ UNCHANGED files
    /\ UNCHANGED <<ret, hung>>
    /\ UNCHANGED <<disk, program, visited, crawlers, site, visitedUrls, assetMap,
                   pendingDownloads, failedDownloads, successfulDownloads, stats,
                   rewritten, tasks, report, hist>>

\* pipe writes one chunk of the response to the output file
TransferChunk ==
    /\ Top.k = "downloadFile" /\ Top.pc = "transfer"
    /\ Top.open /\ Top.wrote < ResponseChunks
    /\ main' = <<[Top EXCEPT !.wrote = @ + 1]>>
    /\ files' = [files EXCEPT ![Top.name].size = @ + 1]
    /\ UNCHANGED <<ret, hung>>
    /\ UNCHANGED <<disk, program, visited, crawlers, site, visitedUrls, assetMap,
                   pendingDownloads, failedDownloads, successfulDownloads, stats,
                   rewritten, tasks, report, hist>>

\* writer 'finish' (lines 62-71): the response ended and all of it is written
WriterFinish ==
    /\ Top.k = "downloadFile" /\ Top.pc = "transfer"
    /\ Top.open /\ Top.wrote = ResponseChunks
    /\ main' = <<[Top EXCEPT !.pc = "resolved"]>>
    /\ files' = [files EXCEPT ![Top.name].complete = TRUE]
    /\ ret' = [filename |-> Top.name, size |-> files[Top.name].size, url |-> Top.url]
    /\ UNCHANGED hung
    /\ UNCHANGED <<disk, program, visited, crawlers, site, visitedUrls, assetMap,
                   pendingDownloads, failedDownloads, successfulDownloads, stats,
                   rewritten, tasks, report, hist>>

\* writer 'error' (lines 73-76): the file could not be opened, or a write
\* failed; fs.unlink is started and the promise is rejected
WriterError ==
    /\ Top.k = "downloadFile" /\ Top.pc = "transfer"
    /\ main' = <<[Top EXCEPT !.pc = "rejected", !.unlink = "started"]>>
    /\ UNCHANGED <<files, ret, hung>>
    /\ UNCHANGED <<disk, program, visited, crawlers, site, visitedUrls, assetMap,
                   pendingDownloads, failedDownloads, successfulDownloads, stats,
                   rewritten, tasks, report, hist>>

\* the response stream fails during the transfer.  No 'error' listener is
\* attached to response.data (line 59) and pipe does not close the writer:
\* neither handler of lines 62-76 ever runs.  The event either goes
\* unobserved or ends the process as an uncaught exception.
ResponseError ==
    /\ Top.k = "downloadFile" /\ Top.pc = "transfer"
    /\ Top.open /\ Top.wrote < ResponseChunks
    /\ \E outcome \in {"pending", "crashed"} :
         main' = <<[Top EXCEPT !.pc = outcome]>>
    /\ UNCHANGED <<files, ret, hung>>
    /\ UNCHANGED <<disk, program, visited, crawlers, site, visitedUrls, assetMap,
                   pendingDownloads, failedDownloads, successfulDownloads, stats,
                   rewritten, tasks, report, hist>>

\* the fs.unlink of line 74 completes
UnlinkDone ==
    /\ Top.k = "downloadFile" /\ Top.unlink = "started"
    /\ main' = <<[Top EXCEPT !.unlink = "done"]>>
    /\ files' = [p \in DOMAIN files \ {Top.name} |-> files[p]]
    /\ UNCHANGED <<ret, hung>>
    /\ UNCHANGED <<disk, program, visited, crawlers, site, visitedUrls, assetMap,
                   pendingDownloads, failedDownloads, successfulDownloads, stats,
                   rewritten, tasks, report, hist>>

NextBypass ==
    \/ CallDownloadFile
    \/ RequestDone
    \/ TransferChunk
    \/ WriterFinish
    \/ WriterError
    \/ ResponseError
    \/ UnlinkDone

\* the event loop runs the handler of every event that has occurred
SpecBypass == InitBypass /\ [][NextBypass]_vars /\ WF_vars(NextBypass)



TypeOK ==
    /\ program \in Programs
    /\ site \in Sites
    /\ visited \subseteq Urls
    /\ visitedUrls \subseteq Urls
    /\ DOMAIN assetMap \subseteq Urls
    /\ pendingDownloads \subseteq Urls
    /\ SeqSet(failedDownloads) \subseteq Urls
    /\ successfulDownloads \subseteq Urls
    /\ hung \in BOOLEAN

(***************************************************************************)
(* Properties                                                              *)
(***************************************************************************)
SiteFrame == main[1]

\* downloadSite has built the report
RunFinished == SiteFrame.pc = "done"

\* the main crawl: downloadPage(baseUrl) has not returned to downloadSite
InMainCrawl == SiteFrame.pc = "crawl" /\ Len(main) > 1

\* the page pipeline of u has been entered and has returned
PageReturned(u) ==
    /\ hist.gate[u] > 0
    /\ \A j \in 1..Len(main) : ~(main[j].k = "page" /\ main[j].url = u)
    /\ \A j \in 1..Len(crawlers) : crawlers[j].url # u

C2_OneFetchAttemptPerAsset ==
    InMainCrawl => \A u \in Urls : hist.assetFetch[u] <= 1

\* C3: once a download has stored an asset URL and returned its local path,
\* the URL has been fetched exactly once.
C3_StoredAssetFetchedOnce ==
    \A u \in DOMAIN assetMap : hist.assetFetch[u] = 1

AssetRecords == {r \in SeqSet(stats.urls.successful) : r.type # "page"}

\* C4: two distinct URLs stored in the same directory have distinct file
\* names (their local paths differ).
C4_FilenameUniqueness ==
    \A r1, r2 \in AssetRecords : r1.url # r2.url => r1.localPath # r2.localPath

\* C5: successfulDownloads and failedDownloads are disjoint.
C5_SucceededFailedDisjoint ==
    successfulDownloads \cap SeqSet(failedDownloads) = {}

\* exactly the asset URL u is unreachable: every transport call for u failed,
\* every other transport call succeeded and no file write failed
OneUnreachableAsset(u) ==
    /\ hist.txFailed = {u}
    /\ u \notin hist.txOk
    /\ hist.assetFetch[u] > 0 /\ hist.pageFetch[u] = 0
    /\ hist.pageIoFailed = {} /\ hist.assetIoFailed = {}
    /\ hist.assetFail[BadHref] = 0

\* C6: a run with exactly one unreachable asset URL that has completed has
\* saved the page and reports exactly one failure entry, for that URL.
C6_PartialFailureTolerance ==
    \A u \in Urls :
        (RunFinished /\ OneUnreachableAsset(u)) =>
            /\ hist.pageSave[BaseUrl] = 1
            /\ BaseUrl \in successfulDownloads
            /\ report.summary.failed = 1
            /\ Len(report.urls.failed) = 1
            /\ report.urls.failed[1].url = u

\* C7: the run is never stuck: until downloadSite has finished, a step of
\* the run is possible.
C7_RunTerminates == program = "SiteDownloader" => (RunFinished \/ ENABLED Next)

\* C8: when the report is generated, every URL that failed in the main crawl
\* and did not succeed afterwards is in failedDownloads.
C8_FailedUrlsReported ==
    RunFinished =>
        \A u \in SeqSet(hist.snapshot) :
            u \in successfulDownloads \/ InSeq(u, failedDownloads)

C10_SkippedIsRecorded ==
    \A u \in hist.skipped :
        /\ u \notin DOMAIN assetMap
        /\ \A pth \in DOMAIN files : files[pth].url # u
        /\ \E r \in SeqSet(stats.urls.successful) \cup SeqSet(stats.urls.failed) :
              r.url = u /\ r.type = "skipped"

\* C13: within one call of retryRequest a failing transport call is retried
\* maxRetries times after the initial call: the error is thrown, and the URL
\* counted as failed, only when the initial call and maxRetries further
\* calls have all failed.
C13_RetriedMaxRetriesTimes == hist.thrownAfter \in {0, maxRetries + 1}

\* cleanPublicFolder has returned to init()
CleanupEnded == disk.pc = "ensure"

\* C14: when cleanPublicFolder has returned, every entry the output directory held is
\* removed except the entries whose name starts with 'download-statistics-'
\* and ends with '.json', which are kept; nothing outside the output
\* directory is deleted, so the report of the earlier run still exists.
C14_CleanupFrame ==
    CleanupEnded =>
        /\ disk.pub = {e \in disk.before : isStatisticsFile(e)}
        /\ disk.cwd = {OldReport}

\* C15: no URL of another origin than the base URL's is fetched as a page
\* (by SiteDownloader or by index.js).
C15_SameOriginCrawl ==
    \A u \in Urls : hist.pageFetch[u] > 0 => sameOrigin(u)

\* a rewritten reference that points under the asset directory
isAssetRef(t) == t.dirs # <<>> /\ Head(t.dirs) = "assets"

\* the path a relative reference names, resolved against the file holding it
resolve(pth, t) == FilePath(pth.dirs \o t.dirs, t.file)

\* C11: when the run has ended, every reference of a saved page or style
\* sheet that was rewritten to a local asset path names, relative to the
\* file that contains it, a file that exists.
C11_ReferenceIntegrity ==
    (program = "SiteDownloader" /\ RunFinished) =>
        \A pth \in DOMAIN files : \A r \in files[pth].refs :
            isAssetRef(r.to) => resolve(pth, r.to) \in DOMAIN files

\* every request and every file write of the run has succeeded
AllFetchesSucceeded ==
    /\ hist.txFailed = {}
    /\ failedDownloads = <<>>
    /\ stats.failed.pages + stats.failed.assets = 0
    /\ hist.pageIoFailed = {} /\ hist.assetIoFailed = {} /\ hist.cssIoFailed = {}

\* the file p holds a reference to u that reads as the local path t
refersTo(pth, u, t) ==
    pth \in DOMAIN files /\ \E r \in files[pth].refs : r.ref = u /\ r.to = t

\* C12: the scenario site (a page with /s.css and /a.png, s.css being
\* exactly @font-face{src:url(/f.woff2)}), every fetch succeeding, ends with
\* index.html referencing assets/s.css and assets/a.png, assets/s.css
\* referencing assets/fonts/f.woff2, the font stored, and 4 successes reported.
C12_ScenarioEndToEnd ==
    (program = "SiteDownloader" /\ site = "scenario" /\ RunFinished /\ AllFetchesSucceeded) =>
        /\ refersTo(FilePath(outputDir, IndexHtml), SCss,
                    FilePath(<<"assets">>, FileName(<<"s">>, "css", 0)))
        /\ refersTo(FilePath(outputDir, IndexHtml), ImgRoot,
                    FilePath(<<"assets">>, FileName(<<"a">>, "png", 0)))
        /\ refersTo(FilePath(assetsDir, FileName(<<"s">>, "css", 0)), FontF,
                    FilePath(<<"assets", "fonts">>, FileName(<<"f">>, "woff2", 0)))
        /\ FilePath(fontsDir, FileName(<<"f">>, "woff2", 0)) \in DOMAIN files
        /\ report.summary.successful = 4
\* the path of a page URL with its leading and trailing slash stripped
strippedPath(u) ==
    (IF u.dir = "" THEN <<>> ELSE <<u.dir>>)
    \o (IF u.name = "" THEN <<>> ELSE <<FileName(<<u.name>>, u.ext, 0)>>)

\* the file a path relative to the output root names
underRoot(t) == FilePath(outputDir \o t.dirs, t.file)

\* the rewritten links of the saved pages
SavedLinks ==
    {r \in UNION {files[pth].refs : pth \in DOMAIN files} :
        ~isAssetRef(r.to) /\ hist.pageSave[r.ref] > 0}

\* C16: a saved page is at <outputDir>/index.html when its stripped path is
\* empty, at <outputDir>/<path> when the path has a file extension and at
\* <outputDir>/<path>/index.html otherwise, and the href written for a link
\* to it names that file relative to the output root.
C16_OutputPathMapping ==
    program = "SiteDownloader" =>
        /\ \A u \in Urls : hist.pageSave[u] > 0 =>
             LET sp == strippedPath(u)
                 pth == getPageOutputPath(u)
             IN  /\ pth \in DOMAIN files
                 /\ sp = <<>> => pth = FilePath(outputDir, IndexHtml)
                 /\ (sp # <<>> /\ HasExt(u)) =>
                        pth = FilePath(outputDir \o SubSeq(sp, 1, Len(sp) - 1), sp[Len(sp)])
                 /\ (sp # <<>> /\ ~HasExt(u)) =>
                        pth = FilePath(outputDir \o [j \in 1..Len(sp) |-> IF j = Len(sp) /\ u.name # ""
                                                                           THEN u.name ELSE sp[j]],
                                       IndexHtml)
        /\ \A r \in SavedLinks :
             /\ underRoot(r.to) = getPageOutputPath(r.ref)
             /\ underRoot(r.to) \in DOMAIN files

\* the three kinds of path have been saved and linked from the root page
C16_Witness ==
    /\ program = "SiteDownloader" /\ site = "paths" /\ RunFinished
    /\ \A u \in {BaseUrl, About, Docs, PageHtml} : hist.pageSave[u] > 0
    /\ {r.ref : r \in SavedLinks} = {About, Docs, PageHtml}
\* A URL is in pendingDownloads only while the processAsset call that put it
\* there is awaited by the chain: no call of processAsset starts meanwhile.
PendingOnlyWhileAwaited ==
    pendingDownloads # {} =>
        /\ Cardinality(pendingDownloads) = 1
        /\ Len(main) > 1
        /\ Top.k \in {"asset", "font"} \/ Top.wait
\* every page recorded as failed by the main crawl
FailedPagesOfCrawl ==
    {u \in SeqSet(hist.snapshot) :
        \E j \in 1..Len(stats.urls.failed) :
            stats.urls.failed[j].url = u /\ stats.urls.failed[j].type = "page"}

\* C18: when the run has ended, every page whose fetch failed in the main
\* crawl has been requested once more, by the sweep.
C18_FailedPageRefetched ==
    (program = "SiteDownloader" /\ RunFinished) =>
        \A u \in FailedPagesOfCrawl : hist.pageFetch[u] >= 2

\* retryFailedDownloads has been called and has not returned
InSweep == \E j \in 1..Len(main) : main[j].k = "sweep"

\* C19: the sweep makes one pass over its snapshot and returns: it is never
\* stuck on a URL of the snapshot.
C19_SingleSweepPass == InSweep => ~hung

\* C20: a response that looks like an HTML document and was fetched by
\* downloadAsset with a generic category is saved as a page: it is not
\* recorded as an asset, not put in assetMap and not written under the
\* asset directory.
C20_HtmlAsAssetRouting ==
    program = "SiteDownloader" =>
        \A r \in SeqSet(stats.urls.successful) :
            (r.type \in {"other", "page"} /\ isLikelyHtmlPage(r.url, ContentType(r.url))) =>
                /\ r.type = "page"
                /\ r.localPath = getPageOutputPath(r.url)
                /\ r.url \notin DOMAIN assetMap
\* a call of the resolver has ended
ResolverReturned == Top.k \in {"generateFilename", "generateFontFilename"} /\ Top.pc = "returned"
ResolverThrew    == Top.k \in {"generateFilename", "generateFontFilename"} /\ Top.pc = "thrown"

\* C21: a call of generateFilename or generateFontFilename for a URL that
\* has an entry in assetMap ends, and returns the name stored for the URL.
C21_ResolverIdempotence ==
    (Top.k \in {"generateFilename", "generateFontFilename"} /\ Top.url \in DOMAIN assetMap) =>
        /\ ~hung
        /\ ~ResolverThrew
        /\ ResolverReturned => ret = assetMap[Top.url]

\* C22: no call of generateFilename or generateFontFilename throws, whatever
\* the URL string: each call that ends returns a file name.
C22_ResolverNeverThrows == ~ResolverThrew
\* the place of a category in the order stylesheets, scripts, images,
\* links, videos, audio, fonts, favicons
categoryRank(type) ==
    CASE type = "css"    -> 1
      [] type = "js"     -> 2
      [] type = "images" -> 3
      [] type = "html"   -> 4
      [] type = "videos" -> 5
      [] type = "audio"  -> 6
      [] type = "fonts"  -> 7
      [] type = "icons"  -> 8
      [] OTHER           -> 0

\* how far a call of downloadPage has come: the request, the sub-pipeline it
\* is in, all sub-pipelines returned, the rewriting and the save, the delay
pageStage(f) ==
    CASE f.pc = "fetch" -> 0
      [] f.pc = "work"  -> IF f.i > Len(WorkList(Doc(site, f.url))) THEN 9
                           ELSE categoryRank(WorkList(Doc(site, f.url))[f.i].type)
      [] f.pc = "write" -> 10
      [] OTHER          -> 11

\* what a call of downloadPage awaits is the sub-pipeline of its stage
AwaitsItsStage ==
    \A j \in 1..(Len(main) - 1) :
        main[j].k = "page" =>
            LET W == WorkList(Doc(site, main[j].url)) IN
            /\ main[j].pc = "work" /\ main[j].i <= Len(W)
            /\ main[j + 1].k = "page" => W[main[j].i].kind = "link"
            /\ main[j + 1].k \in {"asset", "font"} =>
                   /\ W[main[j].i].kind \in {"asset", "srcset"}
                   /\ main[j + 1].type = W[main[j].i].type

\* a call of downloadPage never goes back to an earlier stage
StageAdvances ==
    \A j \in 1..Len(main) :
        (j <= Len(main') /\ main[j].k = "page" /\ main'[j].k = "page"
            /\ main'[j].url = main[j].url) =>
                pageStage(main'[j]) >= pageStage(main[j])

\* C23: within a page the sub-pipelines start in the order stylesheets,
\* scripts, images, links, videos, audio, fonts, favicons, each after the
\* one before has returned, and the rewriting and the save come after the last.
C23_FixedCategoryOrder == []AwaitsItsStage /\ [][StageAdvances]_vars

\* a page with a script, a video, a sound and a favicon is being saved
C23_Witness ==
    /\ program = "SiteDownloader" /\ site = "media"
    /\ Top.k = "page" /\ Top.pc = "write"
    /\ \A u \in {AppJs, Clip, Tune, Favicon} : u \in DOMAIN assetMap
\* the <style> callbacks of page u that still have a font to fetch or a
\* src value to rewrite
OpenTasks(u) == {i \in 1..Len(tasks) : tasks[i].doc = u /\ tasks[i].q # <<>>}

\* C24: when a page is serialized and saved, every fetch and every mutation
\* of its document that its sub-pipelines started has finished, those of the
\* inline <style> blocks included; no rewrite is applied to the document
\* after the page was written.
C24_ProcessingBeforeSerialization ==
    program = "SiteDownloader" =>
        /\ \A j \in 1..Len(main) :
             (main[j].k = "page" /\ main[j].pc \in {"write", "delay"}) =>
                 OpenTasks(main[j].url) = {}
        /\ \A u \in Urls :
             (hist.pageSave[u] > 0 /\ files[getPageOutputPath(u)].url = u) =>
                 rewritesOf(rewritten, u) \subseteq files[getPageOutputPath(u)].refs
\* the URLs with an outcome in the report
ReportedUrls ==
    {report.urls.successful[j].url : j \in 1..Len(report.urls.successful)}
    \cup {report.urls.failed[j].url : j \in 1..Len(report.urls.failed)}

\* the <style> callbacks whose font request or file write has not ended
TasksInFlight == {i \in 1..Len(tasks) : tasks[i].pc \in {"fetch", "write"}}

\* C25: when the report is built no fetch of the run is in flight, and
\* every page or asset fetch that was started has its outcome in the report.
C25_ReportCompleteness ==
    (program = "SiteDownloader" /\ RunFinished) =>
        /\ TasksInFlight = {}
        /\ \A u \in Urls :
             hist.pageFetch[u] + hist.assetFetch[u] > 0 => u \in ReportedUrls
\* the anchors of page d to its own origin
sameOriginAnchors(d) ==
    {Doc(site, d).links[j] : j \in {k \in 1..Len(Doc(site, d).links) :
                                       sameOrigin(Doc(site, d).links[k])}}

\* the hrefs of anchors that have been rewritten to a page path
AnchorRewrites ==
    {r \in rewritten : ~isAssetRef(r.to) /\ InSeq(r.ref, Doc(site, r.doc).links)}

\* the call of downloadPage for u is in the chain, awaited by the pipeline of d
AwaitedBy(u, d) ==
    \E j, k \in 1..Len(main) :
        /\ j < k
        /\ main[j].k = "page" /\ main[j].url = d
        /\ main[k].k = "page" /\ main[k].url = u

\* the text of page d as it is serialized: in the call that writes it, or on disk
Serialized(d) ==
    {main[j].html : j \in {k \in 1..Len(main) :
         main[k].k = "page" /\ main[k].url = d /\ main[k].pc \in {"write", "delay"}}}
    \cup {files[pth].refs : pth \in {q \in DOMAIN files :
         q = getPageOutputPath(d) /\ files[q].url = d /\ hist.pageSave[d] > 0}}

\* C26: the href of a same-origin anchor is rewritten to the local path of
\* its target only when the page pipeline has been invoked for the target and
\* has returned to the anchor's page, and it is rewritten in every page that
\* is serialized, whether the target was saved, failed or visited before.
C26_AnchorRewrittenAfterReturn ==
    program = "SiteDownloader" =>
        /\ \A r \in AnchorRewrites :
             /\ r.to = getRelativePathForLink(r.ref)
             /\ hist.gate[r.ref] > 0
             /\ ~AwaitedBy(r.ref, r.doc)
        /\ \A d \in Urls : \A text \in Serialized(d) : \A x \in sameOriginAnchors(d) :
             Rewrite(d, x, getRelativePathForLink(x)) \in text

\* the saved root page holds the rewritten hrefs of an anchor whose target
\* failed and of anchors whose targets were saved
C26_Witness ==
    /\ program = "SiteDownloader" /\ site = "paths" /\ RunFinished
    /\ hist.pageSave[BaseUrl] > 0 /\ hist.pageSave[About] = 0 /\ hist.pageSave[Docs] > 0
    /\ \A x \in {About, Docs, PageHtml} :
         Rewrite(BaseUrl, x, getRelativePathForLink(x))
             \in files[getPageOutputPath(BaseUrl)].refs
\* the URLs of the candidates of a srcset attribute that are not data: URLs
candidateUrls(cs) == {cs[j].url : j \in {k \in 1..Len(cs) : ~cs[k].data}}

\* C27: a data: candidate of a srcset is passed through as it is, so that
\* nothing but the other candidates is requested, and the srcset of a page
\* that is serialized has as many candidates as the attribute had.
C27_SrcsetRewriting ==
    program = "SiteDownloader" =>
        \A d \in Urls :
            /\ Srcset(site, d) # <<>> =>
                  \A u \in Urls : hist.assetFetch[u] > 0 => u \in candidateUrls(Srcset(site, d))
            /\ (Serialized(d) # {}) =>
                  Len(splitComma(Srcset(site, d))) = Len(Srcset(site, d))
\* the next step of the chain is the rewriteCssUrls pass over the <style>
\* elements of the page
AtStyleCssPass ==
    /\ program = "SiteDownloader" /\ ~hung
    /\ Top.k = "page" /\ Top.pc = "work" /\ ~Top.wait
    /\ Top.i <= Len(WorkList(Doc(site, Top.url)))
    /\ WorkList(Doc(site, Top.url))[Top.i].kind = "stylecss"

\* the url() tokens of the <style> elements of page d
styleTokens(d) ==
    UNION {SeqSet(cssUrls(Doc(site, d).styles[j])) : j \in 1..Len(Doc(site, d).styles)}

\* the step taken is that pass
StyleCssPass ==
    /\ AtStyleCssPass
    /\ Len(main') = Len(main) /\ main'[Len(main)].i = Top.i + 1

\* C28: the rewriteCssUrls pass requests nothing and leaves visitedUrls,
\* assetMap, pendingDownloads, failedDownloads, successfulDownloads and the
\* statistics alone; it rewrites the url() tokens whose URL is in assetMap
\* to the stored local path and leaves every other token as it is.
C28_CssUrlPassFrame ==
    [][StyleCssPass =>
        /\ UNCHANGED <<visitedUrls, assetMap, pendingDownloads, failedDownloads,
                       successfulDownloads, stats, files, tasks>>
        /\ hist'.assetFetch = hist.assetFetch /\ hist'.pageFetch = hist.pageFetch
        /\ rewritten \subseteq rewritten'
        /\ \A r \in rewritten' \ rewritten :
             /\ r.doc = Top.url /\ r.ref \in styleTokens(Top.url)
             /\ r.ref \in DOMAIN assetMap
             /\ r.to = FilePath(IF isFontFile(r.ref) THEN <<"assets", "fonts">> ELSE <<"assets">>,
                                assetMap[r.ref])
        /\ \A x \in styleTokens(Top.url) :
             (x \in DOMAIN assetMap /\ ~isRewritten(rewritten, Top.url, x)) =>
                 isRewritten(rewritten', Top.url, x)
    ]_vars

\* the pass has rewritten the url(/f.woff2) of a <style> element to the font
\* that the style sheet of the page had stored
C28_Witness ==
    /\ program = "SiteDownloader" /\ site = "fonts"
    /\ Top.k = "page" /\ Top.url = BaseUrl /\ Top.pc = "work" /\ ~Top.wait
    /\ Top.i > 1 /\ Top.i - 1 <= Len(WorkList(Doc(site, BaseUrl)))
    /\ WorkList(Doc(site, BaseUrl))[Top.i - 1].kind = "stylecss"
    /\ FontF \in DOMAIN assetMap
    /\ Rewrite(BaseUrl, FontF, FilePath(<<"assets", "fonts">>, assetMap[FontF])) \in rewritten
\* the call at place j of the chain has stored its file and has not yet
\* waited delayBetweenRequests
StoredNotPaused(j) == main[j].k \in {"asset", "font"} /\ main[j].pc = "css"

\* C29: a call that has stored its file waits delayBetweenRequests before the
\* next transport request of the run: no request is issued by a call that
\* has stored and not yet paused.
C29_PolitenessPacing ==
    program = "SiteDownloader" =>
        \A j \in 1..(Len(main) - 1) :
            StoredNotPaused(j) => main[j + 1].pc # "fetch"
nameChars(n) ==
    UNION {SeqSet(Chars(n.base[j])) : j \in 1..Len(n.base)} \cup SeqSet(Chars(n.ext))

\* the last path segment of the URL of the call, or the default the
\* resolver takes for an empty segment
rawSegment(f) ==
    IF f.url.name # "" THEN f.url.name
    ELSE IF f.k = "generateFontFilename" THEN "font-now" ELSE f.type

\* C31: a name that generateFilename or generateFontFilename returns holds
\* no character outside [A-Za-z0-9._-]: its base name is the last path
\* segment of the URL with every such character replaced by '_', and a
\* uniqueness suffix adds digits only.
C31_SanitizedNames ==
    ResolverReturned =>
        /\ nameChars(ret) \cap UnsafeChars = {}
        /\ ret.n >= 0
        /\ Len(Chars(ret.base[1])) = Len(Chars(rawSegment(Top)))
        /\ \A j \in 1..Len(Chars(ret.base[1])) :
              Chars(ret.base[1])[j] =
                 IF Chars(rawSegment(Top))[j] \in UnsafeChars THEN "_"
                 ELSE Chars(rawSegment(Top))[j]

\* the name resolved for .../play%20button.svg is play_20button.svg
C31_Witness ==
    /\ ResolverReturned /\ Top.k = "generateFilename" /\ Top.url = PlayButton
    /\ ret = FileName(<<"play_20button">>, "svg", 0)
\* the sum of the counters of a byType object
RECURSIVE sumByType(_, _)
sumByType(bt, ts) ==
    IF ts = {} THEN 0
    ELSE LET t == CHOOSE x \in ts : TRUE IN bt[t] + sumByType(bt, ts \ {t})

\* the page and asset counters agree with the two URL lists
CountersMatchLists ==
    /\ stats.successful.pages + stats.successful.assets = Len(stats.urls.successful)
    /\ stats.failed.pages + stats.failed.assets = Len(stats.urls.failed)
    /\ sumByType(stats.successful.byType, Types) = stats.successful.assets
    /\ sumByType(stats.failed.byType, Types) = stats.failed.assets
    /\ \A t \in Types :
          /\ stats.successful.byType[t] =
                Cardinality({j \in 1..Len(stats.urls.successful) :
                               stats.urls.successful[j].type = t /\ t # "page"})
          /\ stats.failed.byType[t] =
                Cardinality({j \in 1..Len(stats.urls.failed) :
                               stats.urls.failed[j].type = t /\ t # "page"})

\* a step leaves the records of the two lists as they are and appends
ListsOnlyAppended ==
    /\ Len(stats'.urls.successful) >= Len(stats.urls.successful)
    /\ SubSeq(stats'.urls.successful, 1, Len(stats.urls.successful)) = stats.urls.successful
    /\ Len(stats'.urls.failed) >= Len(stats.urls.failed)
    /\ SubSeq(stats'.urls.failed, 1, Len(stats.urls.failed)) = stats.urls.failed

\* C32: in every state successful.pages + successful.assets is the length
\* of urls.successful, failed.pages + failed.assets is the length of
\* urls.failed, the byType counters sum to the asset counters, and the two
\* lists only grow by appending.
C32_StatisticsCounters == []CountersMatchLists /\ [][ListsOnlyAppended]_vars

\* pages and assets have been counted on both sides
C32_Witness ==
    /\ program = "SiteDownloader" /\ RunFinished
    /\ stats.successful.pages > 0 /\ stats.successful.assets > 1
    /\ stats.failed.pages > 0 /\ stats.failed.assets > 1
    /\ stats.failed.byType["images"] > 0 /\ stats.failed.byType["other"] > 0
\* the counts of the summary, of the detailed part and of the lists agree
ReportCountsAgree ==
    (program = "SiteDownloader" /\ RunFinished) =>
        /\ report.summary.successful = report.detailed.successful.total
        /\ report.summary.successful = Len(report.urls.successful)
        /\ report.summary.failed = report.detailed.failed.total
        /\ report.summary.failed = Len(report.urls.failed)

\* the step is generateStatistics, and urls.failed lists failedDownloads
ReportListsFailedDownloads ==
    (program = "SiteDownloader" /\ ~RunFinished /\ main'[1].pc = "done") =>
        {report'.urls.failed[j].url : j \in 1..Len(report'.urls.failed)}
            = SeqSet(failedDownloads)

\* C33: in the report of generateStatistics summary.successful equals
\* detailed.successful.total and the number of entries of urls.successful,
\* summary.failed equals detailed.failed.total and the number of entries of
\* urls.failed, and the URLs of urls.failed are exactly failedDownloads.
C33_ReportConsistency == []ReportCountsAgree /\ [][ReportListsFailedDownloads]_vars
\* the file that the map m names for u is under the asset or the font
\* directory of the file system fs
storedFiles(fs, m, u) ==
    {FilePath(d, m[u]) : d \in {assetsDir, fontsDir}} \cap DOMAIN fs

\* every mapped URL has succeeded and its file is on disk
MappedIsStored ==
    program = "SiteDownloader" =>
        \A u \in DOMAIN assetMap :
            u \in successfulDownloads /\ storedFiles(files, assetMap, u) # {}

\* a step keeps every mapping as it is, and when it inserts a mapping
\* the file holds the response of the URL
MappingsKept ==
    /\ \A u \in DOMAIN assetMap : u \in DOMAIN assetMap' /\ assetMap'[u] = assetMap[u]
    /\ \A u \in DOMAIN assetMap' \ DOMAIN assetMap :
          \E pth \in storedFiles(files', assetMap', u) : files'[pth].url = u

\* C34: every URL in assetMap is in successfulDownloads, the file it maps
\* to was written under the asset or font directory before the mapping was
\* inserted, and a mapping is never removed or changed to another name.
C34_AssetMapInvariant == []MappedIsStored /\ [][MappingsKept]_vars
\* the frame f is a call of downloadPage that awaits processAsset for u
awaitsProcessAsset(f, u) ==
    /\ f.k = "page" /\ f.pc = "work" /\ f.wait
    /\ WorkList(Doc(site, f.url))[f.i].kind = "asset"
    /\ WorkList(Doc(site, f.url))[f.i].url = u

\* a URL is pending only while a call of processAsset for it executes, and
\* no URL is pending when the run has ended
PendingWhileExecuting ==
    /\ \A u \in pendingDownloads : \E j \in 1..Len(main) : awaitsProcessAsset(main[j], u)
    /\ RunFinished => pendingDownloads = {}

\* when a call of processAsset returns its URL is not pending
ReleasedOnReturn ==
    \A u \in Urls :
        (awaitsProcessAsset(Top, u) /\ Len(main') = Len(main) /\ ~main'[Len(main)].wait)
            => u \notin pendingDownloads'

\* C35: a URL is in pendingDownloads only while a processAsset call for it
\* is executing; when the call returns (the asset stored, skipped or failed)
\* the URL is no longer pending, and nothing is pending when the run ends.
C35_PendingReleased == []PendingWhileExecuting /\ [][ReleasedOnReturn]_vars

\* processAsset has returned for a stored, for a skipped and for a failed
\* asset, and nothing is pending
C35_Witness ==
    /\ program = "SiteDownloader" /\ site = "assets" /\ RunFinished
    /\ ImgB \in DOMAIN assetMap /\ Big \in hist.skipped /\ hist.assetFail[ImgA] > 0
    /\ pendingDownloads = {}
\* the page URLs that have passed the visited gate of downloadPage
GatePassed == {u \in Urls : hist.gate[u] > 0}

\* C36: two distinct URLs that pass the visited gate map to different output
\* paths, so the file of a saved page holds the response of that page's URL
\* and is never overwritten by the fetch of another page.
C36_DistinctPagePaths ==
    program = "SiteDownloader" =>
        /\ \A u, v \in GatePassed : u # v => getPageOutputPath(u) # getPageOutputPath(v)
        /\ \A u \in Urls :
              hist.pageSave[u] > 0 => files[getPageOutputPath(u)].url = u
\* the links of page u that start with the base URL
samePrefixLinks(u) ==
    {Doc(site, u).links[j] : j \in {k \in 1..Len(Doc(site, u).links) :
                                       startsWithBaseUrl(Doc(site, u).links[k])}}

\* the call of downloadPage for u has ended
IndexCallEnded(u) == u \in visited /\ \A j \in 1..Len(crawlers) : crawlers[j].url # u

\* a saved page whose call has ended has had its links crawled, whatever
\* became of its assets; a page whose request failed is not saved and stays
\* in visited
LinksCrawledWhenSaved ==
    program = "index.js" =>
        \A u \in Urls :
            /\ (hist.pageSave[u] > 0 /\ IndexCallEnded(u)) => samePrefixLinks(u) \subseteq visited
            /\ u \in hist.txFailed => (u \in visited /\ hist.pageSave[u] = 0)

\* the step in which a page request fails writes no file and calls
\* downloadPage for no link
FailedFetchStartsNothing ==
    (program = "index.js" /\ hist'.txFailed # hist.txFailed) =>
        /\ files' = files /\ visited' = visited
        /\ Len(crawlers') = Len(crawlers) - 1

\* C37: in index.js no asset download rejects, so Promise.all resolves and
\* the same-prefix links of a page that was fetched and saved are crawled;
\* a failed page fetch writes no file, starts no recursion and leaves the
\* URL in visited.
C37_IndexAssetsNeverReject == []LinksCrawledWhenSaved /\ [][FailedFetchStartsNothing]_vars

\* the call has computed outputFilename from the URL (no customFilename)
NameFromUrl == Top.k = "downloadFile" /\ Top.pc # "start" /\ Top.custom = <<>>

\* C38: getFilenameFromUrl returns, for every input, a non-empty file name
\* without a path separator - the decoded last path segment of the URL or
\* the fallback 'download-<timestamp>.bin' - so every file downloadFile
\* writes lies directly inside the working directory.
C38_FilenameTotalAndSafe ==
    /\ NameFromUrl =>
         /\ Top.name # <<>>
         /\ "/" \notin SeqSet(Top.name)
         /\ Top.name \in {FallbackName,
                          decodeURIComponent(pathBasename(Top.url.path))}
    /\ \A p \in DOMAIN files : "/" \notin SeqSet(p)

\* the promise downloadFile returned is settled
DownloadSettled == Top.pc \in {"resolved", "rejected"}

\* resolved with {filename, size, url} only once the whole response is in
\* the output file
ResolvedAfterWritten ==
    Top.pc = "resolved" =>
        /\ Top.name \in DOMAIN files
        /\ files[Top.name].complete
        /\ files[Top.name].size = ResponseChunks
        /\ ret = [filename |-> Top.name, size |-> ResponseChunks, url |-> Top.url]

\* once the call has rejected and its unlink is over, no partly written
\* file is left
NoPartialFileAfterReject ==
    (Top.pc = "rejected" /\ Top.unlink # "started") =>
        \A p \in DOMAIN files : files[p].complete

\* C39: every downloadFile call eventually settles: it resolves only after
\* the output file has been completely written, or rejects (request error,
\* response stream error during the transfer, write error), and after a
\* rejection no partially written output file remains.
C39_DownloadSettles ==
    /\ [](ResolvedAfterWritten /\ NoPartialFileAfterReject)
    /\ <>DownloadSettled

====
